---------------------------- MODULE Spec2Model ----------------------------
(***************************************************************************)
(* A model of the competitor-promotion pipeline: the fetch cascade, the    *)
(* standard-record builder with NEW/UPDATED/SAME change detection, the     *)
(* per-competitor deduplication passes, the extraction orchestrator and    *)
(* the persisted store.                                                    *)
(*                                                                         *)
(* Text is modelled as a sequence of one-character strings, a Python dict  *)
(* as a function from key strings, Python's None as the value NONE.        *)
(***************************************************************************)
EXTENDS Integers, Sequences, FiniteSets, TLC

(***************************************************************************)
(* Python values                                                           *)
(***************************************************************************)
\* None where a text is expected: a sequence no text equals (a text holds
\* one-character strings only)
NONE == <<"<None>">>

\* None where a dict is expected, and a list where a dict is expected
NoDict == [isNone |-> TRUE]
JsonList(items) == [isList |-> TRUE, items |-> items]
IsList(d) == "isList" \in DOMAIN d
IsDict(d) == "isNone" \notin DOMAIN d /\ "isList" \notin DOMAIN d

\* bool(d) of a dict-or-None
DictTruthy(d) == IsDict(d) /\ DOMAIN d # {}

\* truth value of a text-or-None (bool(v))
Truthy(v) == v # NONE /\ v # <<>>

\* a or b
Or(a, b) == IF Truthy(a) THEN a ELSE b

\* d.get(k, dflt)
Get(d, k, dflt) == IF k \in DOMAIN d THEN d[k] ELSE dflt

Min(a, b) == IF a <= b THEN a ELSE b
Max(a, b) == IF a >= b THEN a ELSE b

\* text[:n]
Slice(text, n) == SubSeq(text, 1, Min(n, Len(text)))

(***************************************************************************)
(* Characters and text operations (str methods, re patterns)               *)
(***************************************************************************)
Whitespace == {" ", "\n", "\t", "\r"}
Digits == {"0", "1", "2", "3", "4", "5", "6", "7", "8", "9"}
UpperChars == <<"A","B","C","D","E","F","G","H","I","J","K","L","M",
                "N","O","P","Q","R","S","T","U","V","W","X","Y","Z">>
LowerChars == <<"a","b","c","d","e","f","g","h","i","j","k","l","m",
                "n","o","p","q","r","s","t","u","v","w","x","y","z">>
Uppers == {UpperChars[i] : i \in 1..26}
Lowers == {LowerChars[i] : i \in 1..26}
\* \w of the re module, for the characters the model uses
WordChars == Uppers \cup Lowers \cup Digits \cup {"_"}

\* c.lower()
LowerChar(c) ==
    IF c \in Uppers THEN LowerChars[CHOOSE i \in 1..26 : UpperChars[i] = c] ELSE c
\* c.upper()
UpperChar(c) ==
    IF c \in Lowers THEN UpperChars[CHOOSE i \in 1..26 : LowerChars[i] = c] ELSE c

\* text.lower()
Lower(text) == [i \in 1..Len(text) |-> LowerChar(text[i])]
\* text.upper()
Upper(text) == [i \in 1..Len(text) |-> UpperChar(text[i])]

\* text[i:].startswith(sub), i counted from 1
MatchAt(text, i, sub) ==
    /\ i >= 1
    /\ i + Len(sub) - 1 <= Len(text)
    /\ SubSeq(text, i, i + Len(sub) - 1) = sub

\* sub in text
Contains(text, sub) == \E i \in 1..(Len(text) + 1) : MatchAt(text, i, sub)

\* text.startswith(sub)
StartsWith(text, sub) == MatchAt(text, 1, sub)

\* text.find(sub), counted from 1; 0 when absent
Find(text, sub) ==
    IF Contains(text, sub)
    THEN CHOOSE i \in 1..(Len(text) + 1) :
            /\ MatchAt(text, i, sub)
            /\ \A j \in 1..(i - 1) : ~MatchAt(text, j, sub)
    ELSE 0

\* text.strip()
LStrip(text) ==
    IF \A i \in 1..Len(text) : text[i] \in Whitespace THEN <<>>
    ELSE SubSeq(text,
                CHOOSE i \in 1..Len(text) :
                   /\ text[i] \notin Whitespace
                   /\ \A j \in 1..(i - 1) : text[j] \in Whitespace,
                Len(text))
RStrip(text) ==
    IF \A i \in 1..Len(text) : text[i] \in Whitespace THEN <<>>
    ELSE SubSeq(text, 1,
                CHOOSE i \in 1..Len(text) :
                   /\ text[i] \notin Whitespace
                   /\ \A j \in (i + 1)..Len(text) : text[j] \in Whitespace)
Strip(text) == RStrip(LStrip(text))

\* the end of the longest run of characters of cls starting at i (i - 1 when none)
RunEnd(text, i, cls) ==
    IF i > Len(text) \/ text[i] \notin cls THEN i - 1
    ELSE CHOOSE j \in i..Len(text) :
            /\ \A k \in i..j : text[k] \in cls
            /\ j = Len(text) \/ text[j + 1] \notin cls

\* the k-th smallest element of a set of numbers
Kth(S, k) == CHOOSE s \in S : Cardinality({t \in S : t < s}) = k - 1

\* text.split(): the maximal runs of non-whitespace characters
Split(text) ==
    LET starts == {i \in 1..Len(text) :
                      /\ text[i] \notin Whitespace
                      /\ i = 1 \/ text[i - 1] \in Whitespace}
        NonSpace == {text[i] : i \in 1..Len(text)} \ Whitespace
    IN  [k \in 1..Cardinality(starts) |->
            LET i == Kth(starts, k)
            IN  SubSeq(text, i, RunEnd(text, i, NonSpace))]

\* text.split(sep) for a non-empty separator
RECURSIVE SplitOn(_, _)
SplitOn(text, sep) ==
    LET p == Find(text, sep)
    IN  IF p = 0
        THEN <<text>>
        ELSE <<SubSeq(text, 1, p - 1)>> \o
             SplitOn(SubSeq(text, p + Len(sep), Len(text)), sep)

\* sep.join(words)
RECURSIVE Join(_, _)
Join(sep, words) ==
    IF words = <<>> THEN <<>>
    ELSE IF Len(words) = 1 THEN words[1]
    ELSE words[1] \o sep \o Join(sep, Tail(words))

\* text.replace(c, "") for every character c of chars
RemoveChars(text, chars) == SelectSeq(text, LAMBDA c : c \notin chars)

(***************************************************************************)
(* promo_builder.py                                                        *)
(***************************************************************************)
\* datetime.now().strftime("%Y-%m-%d"): the day of the run (one day is modelled)
date_scraped_now == <<"2","0","2","5","-","0","1","-","0","1">>

\* the inner clean_text of build_standard_promo
clean_text(text) ==
    IF ~Truthy(text) THEN <<>>
    ELSE Strip(Join(<<" ">>, Split(RemoveChars(text, {"*", "_", "#"}))))

\* the decision with UPDATED for a record that has no stored counterpart
new_or_updated_of_updated(service_name, promo_description, offer_details, existing_promo) ==
    IF ~DictTruthy(existing_promo) THEN "UPDATED"
    ELSE IF /\ Get(existing_promo, "service_name", NONE) = service_name
            /\ Get(existing_promo, "promo_description", NONE) = promo_description
            /\ Get(existing_promo, "offer_details", NONE) = offer_details
         THEN "SAME"
         ELSE "UPDATED"

\* the NEW / UPDATED / SAME decision of build_standard_promo
new_or_updated_of(service_name, promo_description, offer_details, existing_promo) ==
    IF ~DictTruthy(existing_promo) THEN "NEW"
    ELSE IF /\ Get(existing_promo, "service_name", NONE) = service_name
            /\ Get(existing_promo, "promo_description", NONE) = promo_description
            /\ Get(existing_promo, "offer_details", NONE) = offer_details
         THEN "SAME"
         ELSE "UPDATED"

build_standard_promo(competitor, promo_url, service_name, promo_description, category, offer_details, ad_title, ad_text, google_reviews, existing_promo) ==
    [ website           |-> Get(competitor, "domain", <<>>),
      page_url          |-> promo_url,
      business_name     |-> Get(competitor, "name", <<>>),
      google_reviews    |-> google_reviews,
      service_name      |-> clean_text(service_name),
      promo_description |-> clean_text(promo_description),
      category          |-> clean_text(category),
      contact           |-> Get(competitor, "address", <<>>),
      location          |-> Get(competitor, "address", <<>>),
      offer_details     |-> clean_text(offer_details),
      ad_title          |-> clean_text(ad_title),
      ad_text           |-> clean_text(ad_text),
      new_or_updated    |-> new_or_updated_of(service_name, promo_description,
                                              offer_details, existing_promo),
      date_scraped      |-> date_scraped_now ]

\* f"{page_url}::{service_name}"
promo_key(page_url, service_name) == page_url \o <<":", ":">> \o service_name

\* The persisted store file of one competitor: absent, or the JSON document
\* {competitor, scraped_at, promotions, count} (scraped_at is not modelled),
\* or a file json.load cannot read: a document cut short or other content.
AbsentFile == [state |-> "absent"]
UnreadableFile == [state |-> "unreadable"]

\* load_existing_promos: key -> the last stored promotion with that key;
\* {} when the file does not exist, and {} from the except block when
\* reading it raises
load_existing_promos(promotions_file) ==
    IF promotions_file.state = "absent" THEN <<>>
    ELSE IF promotions_file.state = "unreadable" THEN <<>>
    ELSE LET promos == promotions_file.promotions
             KeyOf(p) == promo_key(Get(p, "page_url", <<>>), Get(p, "service_name", <<>>))
             keys == {KeyOf(promos[i]) : i \in 1..Len(promos)}
         IN  [k \in keys |->
                promos[CHOOSE i \in 1..Len(promos) :
                          /\ KeyOf(promos[i]) = k
                          /\ \A j \in (i + 1)..Len(promos) : KeyOf(promos[j]) # k]]

\* existing_promos.get(promo_key)
lookup_existing(promotions_file, promo_url, service_name) ==
    Get(load_existing_promos(promotions_file), promo_key(promo_url, service_name), NoDict)

(***************************************************************************)
(* extraction_flow.py                                                      *)
(***************************************************************************)
\* is_mr_lube
\* the test name == "mr lube"
is_mr_lube_exact(competitor) ==
    Lower(Get(competitor, "name", <<>>)) = <<"m","r"," ","l","u","b","e">>

is_mr_lube(competitor) ==
    LET name == Lower(Get(competitor, "name", <<>>))
    IN  Contains(name, <<"m","r">>) /\ Contains(name, <<"l","u","b","e">>)

\* the required fields with coupon_code among them
required_fields_with_code == {"service_name", "promo_description", "offer_details",
                              "ad_title", "ad_text", "coupon_code"}

required_fields == {"service_name", "promo_description", "offer_details",
                    "ad_title", "ad_text"}

\* has_valid_promotions
has_valid_promotions(promos) ==
    /\ promos # <<>>
    /\ \E i \in 1..Len(promos) :
          \A f \in required_fields :
             /\ Truthy(Get(promos[i], f, NONE))
             /\ Strip(Get(promos[i], f, NONE)) # <<>>

\* format_for_google_sheets
format_for_google_sheets(promo) ==
    [ website           |-> Get(promo, "website", <<>>),
      page_url          |-> Get(promo, "page_url", <<>>),
      business_name     |-> Get(promo, "business_name", <<>>),
      google_reviews    |-> Get(promo, "google_reviews", NONE),
      service_name      |-> Get(promo, "service_name", <<>>),
      promo_description |-> Get(promo, "promo_description", <<>>),
      category          |-> Get(promo, "category", <<>>),
      contact           |-> Get(promo, "contact", <<>>),
      location          |-> Get(promo, "location", <<>>),
      offer_details     |-> Get(promo, "offer_details", <<>>),
      ad_title          |-> Get(promo, "ad_title", <<>>),
      ad_text           |-> Get(promo, "ad_text", <<>>),
      new_or_updated    |-> Get(promo, "new_or_updated", "NEW"),
      date_scraped      |-> Get(promo, "date_scraped", <<>>) ]

(***************************************************************************)
(* re.search for the patterns the scrapers use.  A pattern is a sequence   *)
(* of alternatives tried in order at each start position; an alternative   *)
(* is a sequence of items, each a character class repeated lo..hi times    *)
(* (greedy, with backtracking), and names the items its group 1 spans.     *)
(***************************************************************************)
Unbounded == 1000000

Item(cls, lo, hi) == [cls |-> cls, lo |-> lo, hi |-> hi]
One(cls) == <<Item(cls, 1, 1)>>
\* a literal under re.IGNORECASE
LitI(text) ==
    [i \in 1..Len(text) |-> Item({LowerChar(text[i]), UpperChar(text[i])}, 1, 1)]
\* a literal, case-sensitive
Lit(text) == [i \in 1..Len(text) |-> Item({text[i]}, 1, 1)]
Alt(items, g1, g2) == [items |-> items, g1 |-> g1, g2 |-> g2]

Letters == Uppers \cup Lowers
AlnumI == Letters \cup Digits
SpaceCls == Whitespace \cup {"\f"}

\* The end positions after each item of the first match (in the engine's
\* priority order) of items[k..] at pos; <<>> when there is none.
RECURSIVE MatchItems(_, _, _, _)
RECURSIVE TryCount(_, _, _, _, _)
MatchItems(text, pos, items, k) ==
    LET it == items[k]
        run == RunEnd(text, pos, it.cls) - pos + 1
    IN  TryCount(text, pos, items, k, Min(run, it.hi))
TryCount(text, pos, items, k, n) ==
    IF n < items[k].lo THEN <<>>
    ELSE IF k = Len(items) THEN <<pos + n - 1>>
    ELSE LET rest == MatchItems(text, pos + n, items, k + 1)
         IN  IF rest # <<>> THEN <<pos + n - 1>> \o rest
             ELSE TryCount(text, pos, items, k, n - 1)

\* group 1 of the first alternative of alts (from index a) matching at pos
RECURSIVE GroupAt(_, _, _, _)
GroupAt(text, pos, alts, a) ==
    IF a > Len(alts) THEN NONE
    ELSE LET alt == alts[a]
             ends == MatchItems(text, pos, alt.items, 1)
             from == IF alt.g1 = 1 THEN pos ELSE ends[alt.g1 - 1] + 1
         IN  IF ends # <<>> THEN SubSeq(text, from, ends[alt.g2])
             ELSE GroupAt(text, pos, alts, a + 1)

\* re.search(pattern, text).group(1), NONE when there is no match
Search(text, alts) ==
    LET hits == {pos \in 1..Len(text) : GroupAt(text, pos, alts, 1) # NONE}
    IN  IF hits = {} THEN NONE ELSE GroupAt(text, Kth(hits, 1), alts, 1)

\* r'\$(\d+(?:\.\d+)?)'
DollarPattern ==
    <<Alt(Lit(<<"$">>) \o <<Item(Digits, 1, Unbounded)>> \o Lit(<<".">>)
            \o <<Item(Digits, 1, Unbounded)>>, 2, 4),
      Alt(Lit(<<"$">>) \o <<Item(Digits, 1, Unbounded)>>, 2, 2)>>
\* r'(\d+)\s*%'
PercentPattern ==
    <<Alt(<<Item(Digits, 1, Unbounded), Item(SpaceCls, 0, Unbounded)>>
            \o Lit(<<"%">>), 1, 1)>>

\* the tail [:\s]+([A-Z0-9]{lo,hi}) after a keyword, under re.IGNORECASE
CodeAfter(keyword, sepLo, lo, hi) ==
    Alt(LitI(keyword) \o <<Item(SpaceCls \cup {":"}, sepLo, Unbounded),
                           Item(AlnumI, lo, hi)>>,
        Len(keyword) + 2, Len(keyword) + 2)

(***************************************************************************)
(* fuzzywuzzy                                                              *)
(***************************************************************************)
\* One row of the longest-common-subsequence table: row[j + 1] is the LCS
\* length of the first i characters of s1 and the first j of s2.  Either
\* s1[i] is left unmatched, or it is matched with an equal s2[k], k <= j.
Greatest(numbers) == CHOOSE x \in numbers : \A y \in numbers : y <= x
LcsRow(s1, s2, i, prev) ==
    SubSeq([j1 \in 1..(Len(s2) + 1) |->
               Greatest({prev[j1]} \cup
                        {prev[k] + 1 : k \in {m \in 1..(j1 - 1) : s2[m] = s1[i]}})],
           1, Len(s2) + 1)
RECURSIVE LcsFrom(_, _, _, _)
LcsFrom(s1, s2, i, prev) ==
    IF i > Len(s1) \/ prev[1] # 0 THEN prev[Len(s2) + 1]
    ELSE LcsFrom(s1, s2, i + 1, LcsRow(s1, s2, i, prev))
Lcs(s1, s2) == LcsFrom(s1, s2, 1, SubSeq([j \in 1..(Len(s2) + 1) |-> 0], 1, Len(s2) + 1))

\* int(round(100 * num / den)), Python's round-half-to-even
RoundPercent(num, den) ==
    LET q == (100 * num) \div den
        r == (100 * num) % den
    IN  IF 2 * r > den \/ (2 * r = den /\ q % 2 = 1) THEN q + 1 ELSE q

\* fuzz.ratio: 0 for an empty argument, else 100 * 2M / (len1 + len2) rounded,
\* M the number of matched characters
fuzz_ratio(s1, s2) ==
    IF Len(s1) = 0 \/ Len(s2) = 0 THEN 0
    ELSE RoundPercent(2 * Lcs(s1, s2), Len(s1) + Len(s2))

\* the order of the characters that survive utils.full_process
CharOrder == <<"0","1","2","3","4","5","6","7","8","9","_">> \o LowerChars
CharRank(c) == CHOOSE i \in 1..Len(CharOrder) : CharOrder[i] = c

\* a < b for two processed tokens (Python's string order)
RECURSIVE TokenLess(_, _)
TokenLess(a, b) ==
    IF b = <<>> THEN FALSE
    ELSE IF a = <<>> THEN TRUE
    ELSE IF Head(a) = Head(b) THEN TokenLess(Tail(a), Tail(b))
    ELSE CharRank(Head(a)) < CharRank(Head(b))

\* sorted(tokens) of a set of tokens
RECURSIVE SortedTokens(_)
SortedTokens(tokens) ==
    IF tokens = {} THEN <<>>
    ELSE LET least == CHOOSE t \in tokens : \A u \in tokens \ {t} : TokenLess(t, u)
         IN  <<least>> \o SortedTokens(tokens \ {least})

\* utils.full_process: non-word characters to spaces, lower case, strip
full_process(s) ==
    Strip(Lower([i \in 1..Len(s) |-> IF s[i] \in WordChars THEN s[i] ELSE " "]))

\* the token set of a processed string
TokenSet(p) == {Split(p)[i] : i \in 1..Len(Split(p))}

\* " ".join(sorted(tokens))
SortedJoin(tokens) == Join(<<" ">>, SortedTokens(tokens))

\* the best of the three pairwise ratios of token_set_ratio
BestRatio(sect, combined_1to2, combined_2to1) ==
    Max(fuzz_ratio(sect, combined_1to2),
        Max(fuzz_ratio(sect, combined_2to1),
            fuzz_ratio(combined_1to2, combined_2to1)))

\* token_set_ratio on the two token sets
TokenSetRatio(tokens1, tokens2) ==
    BestRatio(Strip(SortedJoin(tokens1 \cap tokens2)),
              Strip(SortedJoin(tokens1 \cap tokens2) \o <<" ">>
                    \o SortedJoin(tokens1 \ tokens2)),
              Strip(SortedJoin(tokens1 \cap tokens2) \o <<" ">>
                    \o SortedJoin(tokens2 \ tokens1)))

\* fuzz.token_set_ratio
fuzz_token_set_ratio(s1, s2) ==
    IF full_process(s1) = <<>> \/ full_process(s2) = <<>> THEN 0
    ELSE TokenSetRatio(TokenSet(full_process(s1)), TokenSet(full_process(s2)))

(***************************************************************************)
(* fountain_scraper.py: deduplication                                      *)
(***************************************************************************)
duplicate_phrases ==
    << <<"l","e","a","r","n"," ","m","o","r","e">>,
       <<"s","e","e"," ","d","e","t","a","i","l","s">>,
       <<"v","i","e","w"," ","d","e","t","a","i","l","s">>,
       <<"c","l","i","c","k"," ","h","e","r","e">>,
       <<"r","e","a","d"," ","m","o","r","e">>,
       <<"f","i","n","d"," ","o","u","t"," ","m","o","r","e">>,
       <<"g","e","t"," ","s","t","a","r","t","e","d">>,
       <<"s","h","o","p"," ","n","o","w">>,
       <<"b","u","y"," ","n","o","w">>,
       <<"a","p","p","l","y"," ","n","o","w">>,
       <<"v","i","e","w"," ","o","f","f","e","r">>,
       <<"s","e","e"," ","o","f","f","e","r">>,
       <<"v","i","e","w"," ","p","r","o","m","o","t","i","o","n">>,
       <<"s","e","e"," ","p","r","o","m","o","t","i","o","n">> >>

\* \b between positions i - 1 and i of text
WordBoundary(text, i) ==
    LET before == i > 1 /\ text[i - 1] \in WordChars
        after  == i <= Len(text) /\ text[i] \in WordChars
    IN  before # after

\* re.sub(rf'\b{phrase}\b[.,;:!?\s]*', ' ', text).  A phrase starts with a
\* word character and a match ends at a word boundary, so two matches never
\* overlap and every position that matches is replaced.
Dropped == "<dropped>"
RemovePhrase(text, phrase) ==
    LET starts == {i \in 1..Len(text) :
                      /\ MatchAt(text, i, phrase)
                      /\ WordBoundary(text, i)
                      /\ WordBoundary(text, i + Len(phrase))}
        EndOf(m) == RunEnd(text, m + Len(phrase),
                           {".", ",", ";", ":", "!", "?"} \cup SpaceCls)
        marked == [i \in 1..Len(text) |->
                     IF i \in starts THEN " "
                     ELSE IF \E m \in starts : m < i /\ i <= EndOf(m) THEN Dropped
                     ELSE text[i]]
    IN  SelectSeq(marked, LAMBDA c : c # Dropped)

RECURSIVE RemovePhrases(_, _)
RemovePhrases(text, k) ==
    IF k > Len(duplicate_phrases) THEN text
    ELSE RemovePhrases(RemovePhrase(text, duplicate_phrases[k]), k + 1)

normalize_text_for_dedup(text) ==
    IF ~Truthy(text) THEN <<>>
    ELSE Join(<<" ">>, Split(RemovePhrases(Lower(text), 1)))

\* normalize_title of fountain_scraper.py
fountain_normalize_title(title) ==
    IF ~Truthy(title) THEN <<>>
    ELSE Join(<<" ">>, Split([i \in 1..Len(title) |->
            LET c == LowerChar(title[i])
            IN  IF c \in WordChars \cup SpaceCls THEN c ELSE " "]))

tire_brands ==
    << <<"m","i","c","h","e","l","i","n">>,
       <<"b","r","i","d","g","e","s","t","o","n","e">>,
       <<"g","o","o","d","y","e","a","r">>,
       <<"c","o","n","t","i","n","e","n","t","a","l">>,
       <<"p","i","r","e","l","l","i">>,
       <<"b","f","g","o","o","d","r","i","c","h">>,
       <<"t","o","y","o">>, <<"n","i","t","t","o">>,
       <<"h","a","n","k","o","o","k">>, <<"f","a","l","k","e","n">>,
       <<"k","u","m","h","o">>, <<"y","o","k","o","h","a","m","a">>,
       <<"d","u","n","l","o","p">>,
       <<"f","i","r","e","s","t","o","n","e">>,
       <<"g","e","n","e","r","a","l">>, <<"c","o","o","p","e","r">>,
       <<"u","n","i","r","o","y","a","l">>,
       <<"m","a","s","t","e","r","c","r","a","f","t">>,
       <<"h","e","r","c","u","l","e","s">>, <<"n","e","x","e","n">>,
       <<"l","a","u","f","e","n","n">> >>

\* the first element of names (from index k) contained in text, else NONE
RECURSIVE FirstContained(_, _, _)
FirstContained(text, names, k) ==
    IF k > Len(names) THEN NONE
    ELSE IF Contains(text, names[k]) THEN names[k]
    ELSE FirstContained(text, names, k + 1)

\* brand.title() of a one-word lower-case brand
Title(word) == <<UpperChar(Head(word))>> \o Tail(word)

extract_brand_name_from_text(text) ==
    IF ~Truthy(text) THEN NONE
    ELSE LET brand == FirstContained(Lower(text), tire_brands, 1)
         IN  IF brand = NONE THEN NONE ELSE Title(brand)

fountain_domain == <<"f","o","u","n","t","a","i","n","t","i","r","e",".","c","o","m">>

\* fuzz.ratio(a, b) if a and b else 0
RatioOrZero(a, b) == IF a # <<>> /\ b # <<>> THEN fuzz_ratio(a, b) ELSE 0

\* the lower-cased text the brand is looked for in
brand_text(promo) ==
    Lower(Get(promo, "service_name", <<>>) \o <<" ">> \o
          Get(promo, "promo_description", <<>>) \o <<" ">> \o
          Get(promo, "offer_details", <<>>))

\* Rule 2: composite key match
same_composite_key(key1, key2) == key1 # <<>> /\ key2 # <<>> /\ key1 = key2

\* Rule 4a: same discount value and same brand
same_discount_and_brand(discount1, discount2, brand1, brand2) ==
    /\ Truthy(discount1) /\ Truthy(discount2) /\ discount1 = discount2
    /\ brand1 # NONE /\ brand2 # NONE /\ brand1 = brand2

\* Rule 4b: same ad_title + ad_text combination
same_ad(ad_title1_clean, ad_title2_clean, ad_text1_clean, ad_text2_clean) ==
    /\ ad_title1_clean # <<>> /\ ad_title2_clean # <<>>
    /\ ad_text1_clean # <<>> /\ ad_text2_clean # <<>>
    /\ ad_title1_clean = ad_title2_clean /\ ad_text1_clean = ad_text2_clean

\* Rule 4c: different Fountain Tire URLs, very similar content
same_across_urls(page_url1, page_url2, service_sim, desc_sim, offer_sim) ==
    /\ page_url1 # page_url2
    /\ Contains(page_url1, fountain_domain)
    /\ Contains(page_url2, fountain_domain)
    /\ service_sim >= 95 /\ desc_sim >= 95 /\ offer_sim >= 95

\* the rules of are_fountain_promos_duplicate on the normalised fields
fountain_rules(promo1, promo2, service1_clean, service2_clean, desc1_clean, desc2_clean, offer1_clean, offer2_clean) ==
    \/ same_composite_key(service1_clean \o desc1_clean \o offer1_clean,
                          service2_clean \o desc2_clean \o offer2_clean)
    \/ same_discount_and_brand(Get(promo1, "discount_value", <<>>),
                               Get(promo2, "discount_value", <<>>),
                               extract_brand_name_from_text(brand_text(promo1)),
                               extract_brand_name_from_text(brand_text(promo2)))
    \/ same_ad(normalize_text_for_dedup(Get(promo1, "ad_title", <<>>)),
               normalize_text_for_dedup(Get(promo2, "ad_title", <<>>)),
               normalize_text_for_dedup(Get(promo1, "ad_text", <<>>)),
               normalize_text_for_dedup(Get(promo2, "ad_text", <<>>)))
    \/ same_across_urls(Get(promo1, "page_url", <<>>), Get(promo2, "page_url", <<>>),
                        RatioOrZero(service1_clean, service2_clean),
                        RatioOrZero(desc1_clean, desc2_clean),
                        RatioOrZero(offer1_clean, offer2_clean))

are_fountain_promos_duplicate(promo1, promo2) ==
    fountain_rules(promo1, promo2,
                   normalize_text_for_dedup(Get(promo1, "service_name", <<>>)),
                   normalize_text_for_dedup(Get(promo2, "service_name", <<>>)),
                   normalize_text_for_dedup(Get(promo1, "promo_description", <<>>)),
                   normalize_text_for_dedup(Get(promo2, "promo_description", <<>>)),
                   normalize_text_for_dedup(Get(promo1, "offer_details", <<>>)),
                   normalize_text_for_dedup(Get(promo2, "offer_details", <<>>)))

\* are_promos_duplicate of fountain_scraper.py
fountain_are_promos_duplicate(promo1, promo2) ==
    LET business1 == Lower(Get(promo1, "business_name", <<>>))
        business2 == Lower(Get(promo2, "business_name", <<>>))
        is_fountain(b) == Contains(b, <<"f","o","u","n","t","a","i","n">>)
                          /\ Contains(b, <<"t","i","r","e">>)
        title1 == fountain_normalize_title(Get(promo1, "promotion_title", <<>>))
        title2 == fountain_normalize_title(Get(promo2, "promotion_title", <<>>))
        img1 == Or(Get(promo1, "image_url", NONE), Get(promo1, "primary_image_url", NONE))
        img2 == Or(Get(promo2, "image_url", NONE), Get(promo2, "primary_image_url", NONE))
    IN  IF is_fountain(business1) /\ is_fountain(business2)
        THEN are_fountain_promos_duplicate(promo1, promo2)
        ELSE IF Len(Split(title1)) < 3 \/ Len(Split(title2)) < 3 THEN FALSE
        ELSE \/ Truthy(img1) /\ Truthy(img2) /\ img1 = img2
             \/ /\ title1 # <<>> /\ title2 # <<>>
                /\ fuzz_token_set_ratio(title1, title2) >= 90

\* the rebate-manufacturer-link test and the merge of those links, one merged
\* record per page, in process_fountain_promotions
rebate_words == << <<"g","o","o","d","y","e","a","r">>, <<"c","o","o","p","e","r">>, <<"t","o","y","o">>, <<"k","u","m","h","o">>,
                   <<"v","i","s","i","t"," ","t","h","e">>, <<"r","e","b","a","t","e"," ","s","i","t","e">>, <<"r","e","b","a","t","e"," ","c","e","n","t","e","r">> >>

is_rebate_link(promo) ==
    /\ Contains(Get(promo, "page_url", <<>>), <<"/","p","r","o","m","o","t","i","o","n","s","/","t","i","r","e","-","r","e","b","a","t","e","s","/">>)
    /\ FirstContained(Lower(Get(promo, "promotion_title", <<>>)), rebate_words, 1) # NONE

\* the distinct page_urls of promos, in order of first appearance
RECURSIVE PagesOf(_, _)
PagesOf(promos, seen) ==
    IF promos = <<>> THEN <<>>
    ELSE LET u == Get(Head(promos), "page_url", <<>>)
         IN  IF u \in seen THEN PagesOf(Tail(promos), seen)
             ELSE <<u>> \o PagesOf(Tail(promos), seen \cup {u})

merge_rebates(all_promos) ==
    LET rebate == SelectSeq(all_promos, is_rebate_link)
        other_promos == SelectSeq(all_promos, LAMBDA p : ~is_rebate_link(p))
        pages == PagesOf(rebate, {})
        Merged(page_url) ==
            LET rebates == SelectSeq(rebate, LAMBDA p : Get(p, "page_url", <<>>) = page_url)
                combined_text == Join(<<"\n">>, [i \in 1..Len(rebates) |->
                                        Get(rebates[i], "offer_details", <<>>)])
                base == rebates[1]
            IN  [k \in DOMAIN base \cup {"promotion_title", "offer_details"} |->
                    IF k = "promotion_title" THEN <<"T","i","r","e"," ","M","a","n","u","f","a","c","t","u","r","e","r"," ","R","e","b","a","t","e","s">>
                    ELSE IF k = "offer_details" THEN Slice(combined_text, 1000)
                    ELSE base[k]]
    IN  other_promos \o [i \in 1..Len(pages) |-> Merged(pages[i])]

\* the composite key of the deduplication loop
composite_key(promo) ==
    normalize_text_for_dedup(Get(promo, "service_name", <<>>)) \o
    normalize_text_for_dedup(Get(promo, "promo_description", <<>>)) \o
    normalize_text_for_dedup(Get(promo, "offer_details", <<>>))

\* the duplicate test of the deduplication loop for one record
is_duplicate_of_seen(promo, key, deduplicated, seen_keys) ==
    \/ \E i \in 1..Len(deduplicated) :
          fountain_are_promos_duplicate(promo, deduplicated[i])
    \/ key # <<>> /\ key \in seen_keys

\* the deduplication loop of process_fountain_promotions
RECURSIVE fountain_dedup_loop(_, _, _)
\* the loop body with deduplicated.insert(0, promo) in place of append
fountain_dedup_step_inserting(promo, key, rest, deduplicated, seen_keys) ==
    IF is_duplicate_of_seen(promo, key, deduplicated, seen_keys)
    THEN fountain_dedup_loop(rest, deduplicated, seen_keys)
    ELSE fountain_dedup_loop(rest, <<promo>> \o deduplicated,
                             IF key # <<>> THEN seen_keys \cup {key} ELSE seen_keys)
fountain_dedup_step(promo, key, rest, deduplicated, seen_keys) ==
    IF is_duplicate_of_seen(promo, key, deduplicated, seen_keys)
    THEN fountain_dedup_loop(rest, deduplicated, seen_keys)
    ELSE fountain_dedup_loop(rest, Append(deduplicated, promo),
                             IF key # <<>> THEN seen_keys \cup {key} ELSE seen_keys)
fountain_dedup_loop(promos, deduplicated, seen_keys) ==
    IF promos = <<>> THEN deduplicated
    ELSE fountain_dedup_step(Head(promos), composite_key(Head(promos)), Tail(promos),
                             deduplicated, seen_keys)

fountain_deduplicate(all_promos) ==
    fountain_dedup_loop(merge_rebates(all_promos), <<>>, {})

(***************************************************************************)
(* fountain_scraper.py: extraction of details and normalisation            *)
(***************************************************************************)
discount_from(text, dollar_match, percent_match) ==
    IF dollar_match # NONE THEN <<"$">> \o dollar_match
    ELSE IF percent_match # NONE THEN percent_match \o <<"%">>
    ELSE IF Contains(Lower(text), <<"f","r","e","e">>) THEN <<"f","r","e","e">>
    ELSE NONE

extract_discount_value(text) ==
    discount_from(text, Search(text, DollarPattern), Search(text, PercentPattern))

\* the first pattern of patterns (from index k) that matches, its group 1
RECURSIVE FirstSearch(_, _, _)
FirstSearch(text, patterns, k) ==
    IF k > Len(patterns) THEN NONE
    ELSE LET g == Search(text, patterns[k])
         IN  IF g # NONE THEN g ELSE FirstSearch(text, patterns, k + 1)

fountain_code_patterns ==
    << <<CodeAfter(<<"c","o","d","e">>, 1, 3, 20), CodeAfter(<<"c","o","u","p","o","n">>, 1, 3, 20),
         CodeAfter(<<"p","r","o","m","o">>, 1, 3, 20)>>,
       <<CodeAfter(<<"u","s","e">>, 1, 3, 20)>> >>

\* match.group(1).upper() of a match-or-None
UpperOrNone(g) == IF g = NONE THEN NONE ELSE Upper(g)

extract_coupon_code(text) == UpperOrNone(FirstSearch(text, fountain_code_patterns, 1))

\* expires? | valid until | until, under re.IGNORECASE
expiry_words ==
    << LitI(<<"e","x","p","i","r","e">>) \o <<Item({"s", "S"}, 0, 1)>>,
       LitI(<<"v","a","l","i","d"," ","u","n","t","i","l">>), LitI(<<"u","n","t","i","l">>) >>

Sep == SpaceCls \cup {":"}
\* [:\s]+([A-Za-z]+\s+\d{1,2}[,\s]+\d{4})
month_day_year ==
    <<Item(Sep, 1, Unbounded), Item(Letters, 1, Unbounded),
      Item(SpaceCls, 1, Unbounded), Item(Digits, 1, 2),
      Item(SpaceCls \cup {","}, 1, Unbounded), Item(Digits, 4, 4)>>
\* [:\s]+(\d{1,2}[/-]\d{1,2}[/-]\d{2,4})
numeric_date ==
    <<Item(Sep, 1, Unbounded), Item(Digits, 1, 2), Item({"/", "-"}, 1, 1),
      Item(Digits, 1, 2), Item({"/", "-"}, 1, 1), Item(Digits, 2, 4)>>

\* one alternative per leading word, group 1 spanning items 2..6 of the tail
AfterWords(words, tail) ==
    [k \in 1..Len(words) |->
        Alt(words[k] \o tail, Len(words[k]) + 2, Len(words[k]) + 6)]

fountain_date_patterns ==
    <<AfterWords(expiry_words, month_day_year), AfterWords(expiry_words, numeric_date)>>

extract_expiry_date(text) == FirstSearch(text, fountain_date_patterns, 1)

\* the lines of text that are non-blank and longer than n once stripped, stripped
LongLines(text, n) ==
    LET lines == SplitOn(text, <<"\n">>)
        stripped == [i \in 1..Len(lines) |-> Strip(lines[i])]
    IN  SelectSeq(stripped, LAMBDA l : l # <<>> /\ Len(l) > n)

\* re.search(r'\$(\d+)|(\d+)\s*%|save|off|discount|financing|offer', text)
has_promo_content(section_lower) ==
    \/ Search(section_lower, DollarPattern) # NONE
    \/ Search(section_lower, PercentPattern) # NONE
    \/ \E w \in {<<"s","a","v","e">>, <<"o","f","f">>, <<"d","i","s","c","o","u","n","t">>, <<"f","i","n","a","n","c","i","n","g">>, <<"o","f","f","e","r">>} :
          Contains(section_lower, w)

\* the three `continue` tests of the section loop of process_fountain_promotions
fountain_skips(section_text) ==
    LET section_lower == Lower(section_text)
    IN  \/ Contains(section_text, <<"{","{">>) \/ Contains(section_text, <<"}","}">>)
        \/ Contains(section_text, <<"$","{","{">>)
        \/ /\ \/ StartsWith(section_lower, <<"p","u","t"," ","s","o","m","e"," ","m","o","n","e","y"," ","b","a","c","k">>)
              \/ StartsWith(section_lower, <<"c","l","a","i","m","i","n","g"," ","y","o","u","r"," ","r","e","b","a","t","e"," ","f","r","o","m"," ","t","h","e"," ","f","o","l","l","o","w","i","n","g">>)
           /\ ~has_promo_content(section_lower)
        \/ Len(Split(section_text)) < 5

\* "Build promotion title" of process_fountain_promotions
fountain_promotion_title(section_text, cleaned_data) ==
    IF DictTruthy(cleaned_data) /\ Truthy(Get(cleaned_data, "service_name", NONE))
    THEN cleaned_data["service_name"]
    ELSE IF DictTruthy(cleaned_data) /\ Truthy(Get(cleaned_data, "promo_description", NONE))
    THEN LET first_line == Slice(Strip(SplitOn(cleaned_data["promo_description"],
                                               <<"\n">>)[1]), 100)
         IN  IF first_line # <<>> THEN first_line
             ELSE Slice(SplitOn(section_text, <<"\n">>)[1], 100)
    ELSE LET lines == LongLines(section_text, 10)
         IN  IF lines # <<>> THEN Slice(lines[1], 100)
             ELSE <<"F","o","u","n","t","a","i","n"," ","T","i","r","e"," ","P","r","o","m","o","t","i","o","n">>

\* the offer_details assembled from the extracted parts and the text
assemble_offer(discount_val, coupon_code_val, expiry_date_val, text) ==
    LET offer_parts ==
            (IF Truthy(discount_val) THEN <<<<"D","i","s","c","o","u","n","t",":"," ">> \o discount_val>> ELSE <<>>) \o
            (IF Truthy(coupon_code_val) THEN <<<<"C","o","d","e",":"," ">> \o coupon_code_val>> ELSE <<>>) \o
            (IF Truthy(expiry_date_val) THEN <<<<"E","x","p","i","r","e","s",":"," ">> \o expiry_date_val>> ELSE <<>>)
    IN  IF offer_parts # <<>>
        THEN Join(<<".", " ">>, offer_parts) \o <<".", " ">> \o Slice(text, 500)
        ELSE Slice(text, 1000)

\* service_name, promo_description, category and offer_details of a candidate
\* ("Use LLM cleaned data if available"), the same code in fountain_scraper.py
\* and trail_scraper.py
normalised_fields(text, cleaned_data, discount_value, coupon_code, expiry_date) ==
    IF DictTruthy(cleaned_data)
    THEN LET offer_details == Get(cleaned_data, "offer_details", NONE)
         IN  [ service_name      |-> Get(cleaned_data, "service_name", <<"t","i","r","e","s">>),
               promo_description |-> Get(cleaned_data, "promo_description", Slice(text, 500)),
               category          |-> Get(cleaned_data, "category", <<"t","i","r","e","s">>),
               offer_details     |->
                  IF Truthy(offer_details) THEN offer_details
                  ELSE assemble_offer(
                         Or(Get(cleaned_data, "discount_value", NONE), discount_value),
                         Or(Get(cleaned_data, "coupon_code", NONE), coupon_code),
                         Or(Get(cleaned_data, "expiry_date", NONE), expiry_date),
                         text) ]
    ELSE [ service_name      |-> <<"t","i","r","e","s">>,
           promo_description |-> Slice(text, 500),
           category          |-> <<"t","i","r","e","s">>,
           offer_details     |-> assemble_offer(discount_value, coupon_code,
                                                expiry_date, text) ]

\* the call of build_standard_promo once the fields f are normalised
build_from_fields(competitor, promo_url, f, ad_title, ad_text, google_reviews, promotions_file) ==
    build_standard_promo(competitor, promo_url, f.service_name,
                         f.promo_description, f.category, f.offer_details,
                         ad_title, ad_text, google_reviews,
                         lookup_existing(promotions_file, promo_url, f.service_name))

\* the body of the section loop of process_fountain_promotions for a section
\* that is not skipped: the record appended to all_promos
fountain_promo(competitor, promo_url, section, google_reviews, promotions_file) ==
    build_from_fields(competitor, promo_url,
                      normalised_fields(section.text, section.cleaned_data,
                                        extract_discount_value(section.text),
                                        extract_coupon_code(section.text),
                                        extract_expiry_date(section.text)),
                      fountain_promotion_title(section.text, section.cleaned_data),
                      Slice(section.text, 500), google_reviews, promotions_file)

(***************************************************************************)
(* trail_scraper.py                                                        *)
(***************************************************************************)
PROMO_KEYWORDS ==
    { <<"o","f","f","e","r">>, <<"o","f","f","e","r","s">>, <<"p","r","o","m","o">>, <<"p","r","o","m","o","t","i","o","n","s">>, <<"c","o","u","p","o","n">>, <<"c","o","u","p","o","n","s">>,
      <<"s","p","e","c","i","a","l">>, <<"d","i","s","c","o","u","n","t">>, <<"s","a","v","e">>, <<"f","r","e","e">>, <<"r","e","b","a","t","e">>, <<"d","e","a","l">>,
      <<"l","i","m","i","t","e","d">>, <<"o","i","l"," ","c","h","a","n","g","e">>, <<"b","r","a","k","e">>, <<"b","a","t","t","e","r","y">>, <<"s","e","a","s","o","n","a","l">>,
      <<"t","i","r","e">>, <<"s","e","r","v","i","c","e">> }

\* detect_promo_keywords of ocr_processor.py
detect_promo_keywords(text, keywords) ==
    /\ Truthy(text)
    /\ \E keyword \in keywords : Contains(Lower(text), Lower(keyword))

\* normalize_title of trail_scraper.py
trail_normalize_title(title) == Join(<<" ">>, Split(Strip(Lower(title))))

\* calculate_ocr_hash: the MD5 digest of the normalised text; two digests are
\* equal exactly when the normalised texts are, so the text stands for its digest
calculate_ocr_hash(ocr_text) == Join(<<" ">>, Split(Strip(Lower(ocr_text))))

trail_code_patterns ==
    << <<CodeAfter(<<"c","o","d","e">>, 1, 3, 20)>>, <<CodeAfter(<<"c","o","u","p","o","n">>, 1, 3, 20)>>,
       <<CodeAfter(<<"u","s","e">>, 1, 3, 20)>> >>

\* expires? | expiry | valid until | until | ends?
trail_expiry_words ==
    << LitI(<<"e","x","p","i","r","e">>) \o <<Item({"s", "S"}, 0, 1)>>, LitI(<<"e","x","p","i","r","y">>),
       LitI(<<"v","a","l","i","d"," ","u","n","t","i","l">>), LitI(<<"u","n","t","i","l">>),
       LitI(<<"e","n","d">>) \o <<Item({"s", "S"}, 0, 1)>> >>

trail_date_patterns ==
    <<AfterWords(trail_expiry_words, numeric_date),
      <<Alt(Tail(numeric_date), 1, 5)>> >>

\* match.group(1).strip() of a match-or-None
StripOrNone(g) == IF g = NONE THEN NONE ELSE Strip(g)

extract_promo_details_from_text(text) ==
    [ discount_value |-> extract_discount_value(text),
      coupon_code    |-> UpperOrNone(FirstSearch(text, trail_code_patterns, 1)),
      expiry_date    |-> StripOrNone(FirstSearch(text, trail_date_patterns, 1)) ]

alt_keywords == {<<"r","e","b","a","t","e">>, <<"o","f","f">>, <<"d","i","s","c","o","u","n","t">>, <<"s","a","v","e">>, <<"p","r","o","m","o">>, <<"t","i","r","e">>}

\* "Step 10: Build promotion title" of process_trail_promotions
trail_promotion_title(alt_text, ocr_text, cleaned_data) ==
    IF DictTruthy(cleaned_data) /\ Truthy(Get(cleaned_data, "service_name", NONE))
    THEN cleaned_data["service_name"]
    ELSE IF DictTruthy(cleaned_data) /\ Truthy(Get(cleaned_data, "promo_description", NONE))
    THEN LET first_line == Slice(Strip(SplitOn(cleaned_data["promo_description"],
                                               <<"\n">>)[1]), 100)
         IN  IF first_line # <<>> THEN first_line ELSE <<"T","i","r","e"," ","P","r","o","m","o","t","i","o","n">>
    ELSE IF Truthy(alt_text) /\ Len(Strip(alt_text)) > 5
    THEN Slice(alt_text, 100)
    ELSE LET lines == LongLines(ocr_text, 5)
         IN  IF lines # <<>> THEN Slice(lines[1], 100) ELSE <<"T","i","r","e"," ","P","r","o","m","o","t","i","o","n">>

\* step 11 of the image loop: the fields from the extracted details
trail_fields(image, extracted_details) ==
    normalised_fields(image.ocr_text, image.cleaned_data,
                      extracted_details.discount_value,
                      extracted_details.coupon_code,
                      extracted_details.expiry_date)

\* steps 11 and 12 of the image loop: the record appended to all_promos
trail_promo(competitor, promo_url, image, promotions_file) ==
    build_from_fields(competitor, promo_url,
                      trail_fields(image, extract_promo_details_from_text(image.ocr_text)),
                      trail_promotion_title(image.alt_text, image.ocr_text,
                                            image.cleaned_data),
                      Slice(image.alt_text, 200), NONE, promotions_file)

\* step 6 of the image loop: the image is taken for a promotion
is_promo_image(image, extracted_details) ==
    \/ detect_promo_keywords(image.ocr_text, PROMO_KEYWORDS)
    \/ Truthy(extracted_details.discount_value)
    \/ \E kw \in alt_keywords : Contains(Lower(image.alt_text), kw)

\* The loop state of process_trail_promotions after one image, from the state
\* st before it.  An image is [image_url, content, alt_text, ocr_text,
\* cleaned_data]; content is NONE when the download fails, else it stands for
\* the file hash.
trail_image_step(image, st, normalized_img_url, ocr_hash, normalized_title, promo) ==
    IF normalized_img_url \in st.seen_image_urls THEN st
    ELSE IF image.content = NONE
    THEN [st EXCEPT !.seen_image_urls = @ \cup {normalized_img_url}]
    ELSE IF image.content \in st.seen_image_hashes
    THEN [st EXCEPT !.seen_image_urls = @ \cup {normalized_img_url}]
    ELSE IF \/ ~Truthy(image.ocr_text) \/ Len(Strip(image.ocr_text)) < 10
            \/ ~is_promo_image(image, extract_promo_details_from_text(image.ocr_text))
            \/ ocr_hash \in st.seen_ocr_hashes
    THEN [st EXCEPT !.seen_image_urls = @ \cup {normalized_img_url},
                    !.seen_image_hashes = @ \cup {image.content}]
    ELSE IF normalized_title \in st.seen_titles
    THEN [st EXCEPT !.seen_image_urls = @ \cup {normalized_img_url},
                    !.seen_image_hashes = @ \cup {image.content},
                    !.seen_ocr_hashes = @ \cup {ocr_hash}]
    ELSE [st EXCEPT !.seen_image_urls = @ \cup {normalized_img_url},
                    !.seen_image_hashes = @ \cup {image.content},
                    !.seen_ocr_hashes = @ \cup {ocr_hash},
                    !.seen_titles = @ \cup {normalized_title},
                    !.all_promos = Append(@, promo)]

\* the image loop of process_trail_promotions over the banner images of one
\* page, from the loop state st to the loop state after the page
RECURSIVE trail_image_loop(_, _, _, _, _)
trail_image_loop(competitor, promo_url, images, promotions_file, st) ==
    IF images = <<>> THEN st
    ELSE trail_image_loop(competitor, promo_url, Tail(images), promotions_file,
            trail_image_step(Head(images), st,
                Strip(Lower(Head(images).image_url)),
                calculate_ocr_hash(Head(images).ocr_text),
                trail_normalize_title(
                    trail_promotion_title(Head(images).alt_text, Head(images).ocr_text,
                                          Head(images).cleaned_data)),
                trail_promo(competitor, promo_url, Head(images), promotions_file)))

\* the section loop of process_fountain_promotions over the sections of one page
RECURSIVE fountain_section_loop(_, _, _, _, _)
fountain_section_loop(competitor, promo_url, sections, google_reviews, promotions_file) ==
    IF sections = <<>> THEN <<>>
    ELSE (IF fountain_skips(Head(sections).text) THEN <<>>
          ELSE <<fountain_promo(competitor, promo_url, Head(sections),
                                google_reviews, promotions_file)>>) \o
         fountain_section_loop(competitor, promo_url, Tail(sections),
                               google_reviews, promotions_file)

(***************************************************************************)
(* serpapi_client.py and business_overview_extractor.py                    *)
(***************************************************************************)
\* extract_business_info_from_serpapi, "Try knowledge_graph first".
\* float(rating) of a truthy rating is kept as the rating's decimal text.
from_knowledge_graph(knowledge_graph) ==
    IF DictTruthy(knowledge_graph)
    THEN [ business_name  |-> Get(knowledge_graph, "title", <<>>),
           website        |-> Get(knowledge_graph, "website", <<>>),
           google_reviews |-> Or(Get(knowledge_graph, "rating", NONE), NONE),
           location       |-> Or(Get(knowledge_graph, "address", NONE), NONE),
           contact        |-> Or(Get(knowledge_graph, "address", NONE), NONE) ]
    ELSE [ business_name |-> NONE, website |-> NONE, google_reviews |-> NONE,
           location |-> NONE, contact |-> NONE ]

\* extract_business_info_from_serpapi, "Try organic results for additional info"
from_organic_results(info, organic_results) ==
    IF organic_results # <<>> /\ ~Truthy(info.business_name)
    THEN [info EXCEPT !.business_name = Get(organic_results[1], "title", <<>>),
                      !.website = Get(organic_results[1], "link", <<>>)]
    ELSE info

\* extract_business_info_from_serpapi, "Try local_results"
from_local_results(info, local_results) ==
    IF DictTruthy(local_results)
    THEN [info EXCEPT
            !.business_name = IF ~Truthy(@) THEN Get(local_results, "title", <<>>) ELSE @,
            !.location = IF ~Truthy(@) THEN Get(local_results, "address", <<>>) ELSE @,
            !.contact = IF ~Truthy(@) THEN Get(local_results, "address", <<>>) ELSE @,
            !.google_reviews = IF Truthy(Get(local_results, "rating", NONE)) /\ ~Truthy(@)
                               THEN local_results["rating"] ELSE @]
    ELSE info

extract_business_info_from_serpapi(data) ==
    from_local_results(
        from_organic_results(from_knowledge_graph(Get(data, "knowledge_graph", <<>>)),
                             Get(data, "organic_results", <<>>)),
        Get(data, "local_results", <<>>))

discount_keywords ==
    { <<"d","i","s","c","o","u","n","t">>, <<"p","r","o","m","o","t","i","o","n">>, <<"s","p","e","c","i","a","l">>, <<"o","f","f","e","r">>, <<"d","e","a","l">>, <<"s","a","l","e">>,
      <<"c","o","u","p","o","n">>, <<"r","e","b","a","t","e">>, <<"s","a","v","e">>, <<"f","r","e","e">> }
service_sentence_keywords ==
    { <<"s","e","r","v","i","c","e">>, <<"r","e","p","a","i","r">>, <<"m","a","i","n","t","e","n","a","n","c","e">>, <<"i","n","s","p","e","c","t","i","o","n">>, <<"q","u","a","l","i","t","y">>,
      <<"p","r","o","f","e","s","s","i","o","n","a","l">> }
service_keywords ==
    << <<"o","i","l"," ","c","h","a","n","g","e">>, <<"b","r","a","k","e">>, <<"t","i","r","e">>, <<"b","a","t","t","e","r","y">>, <<"i","n","s","p","e","c","t","i","o","n">>, <<"s","e","r","v","i","c","e">> >>

ContainsAny(text, words) == \E w \in words : Contains(text, w)
LooksLikeJson(text) == StartsWith(text, <<"{">>) \/ StartsWith(text, <<"'">>)


offers_maintenance == <<" ","o","f","f","e","r","s"," ","p","r","o","f","e","s","s","i","o","n","a","l"," ","a","u","t","o","m","o","t","i","v","e"," ","s","e","r","v","i","c","e","s"," ","i","n","c","l","u","d","i","n","g"," ","o","i","l"," ","c","h","a","n","g","e","s",","," ","t","i","r","e"," ","s","e","r","v","i","c","e","s",","," ","a","n","d"," ","m","a","i","n","t","e","n","a","n","c","e",".">>
provider_offering == <<" ","i","s"," ","a"," ","p","r","o","f","e","s","s","i","o","n","a","l"," ","a","u","t","o","m","o","t","i","v","e"," ","s","e","r","v","i","c","e"," ","p","r","o","v","i","d","e","r"," ","o","f","f","e","r","i","n","g"," ","o","i","l"," ","c","h","a","n","g","e","s",","," ","t","i","r","e"," ","s","e","r","v","i","c","e","s",","," ","a","n","d"," ","m","a","i","n","t","e","n","a","n","c","e",".">>
professional_services == <<"P","r","o","f","e","s","s","i","o","n","a","l"," ","a","u","t","o","m","o","t","i","v","e"," ","s","e","r","v","i","c","e","s"," ","i","n","c","l","u","d","i","n","g"," ","o","i","l"," ","c","h","a","n","g","e","s",","," ","t","i","r","e"," ","s","e","r","v","i","c","e","s",","," ","a","n","d"," ","m","a","i","n","t","e","n","a","n","c","e",".">>
auto_service == <<"a","u","t","o"," ","s","e","r","v","i","c","e">>

\* the snippets of the first three organic results
snippets_of(organic_results) ==
    SelectSeq([i \in 1..Min(3, Len(organic_results)) |->
                  Get(organic_results[i], "snippet", <<>>)], Truthy)

\* "Try to extract from organic results"
with_snippets(ai_overview_text, snippets) ==
    IF snippets # <<>> THEN Join(<<" ">>, snippets) ELSE ai_overview_text

\* "If still empty, try knowledge graph"
with_knowledge_graph(ai_overview_text, knowledge_graph) ==
    IF ~Truthy(ai_overview_text) /\ DictTruthy(knowledge_graph)
    THEN (IF IsDict(Get(knowledge_graph, "about", NoDict))
          THEN Or(Get(knowledge_graph, "description", <<>>),
                  Get(Get(knowledge_graph, "about", <<>>), "text", <<>>))
          ELSE <<>>)
    ELSE ai_overview_text

\* "If AI Overview text is empty or looks like JSON/dict, try to extract from
\* full_data"
from_full_data(ai_overview_text, full_data) ==
    IF ~Truthy(ai_overview_text) \/ LooksLikeJson(ai_overview_text)
    THEN with_knowledge_graph(
            with_snippets(ai_overview_text,
                          snippets_of(Get(full_data, "organic_results", <<>>))),
            Get(full_data, "knowledge_graph", <<>>))
    ELSE ai_overview_text

\* "If still no text, use a fallback"
or_fallback(ai_overview_text, business_name) ==
    IF ~Truthy(ai_overview_text) \/ LooksLikeJson(ai_overview_text)
    THEN business_name \o provider_offering
    ELSE ai_overview_text

\* text.split(". ") filtered by the keywords kws
sentences_with(ai_overview_text, kws) ==
    SelectSeq(SplitOn(ai_overview_text, <<".", " ">>),
              LAMBDA s : ContainsAny(Lower(s), kws))

\* [s.strip() for s in sentences if len(s.strip()) > 20]
meaningful_sentences(ai_overview_text) ==
    SelectSeq([i \in DOMAIN SplitOn(ai_overview_text, <<".", " ">>) |->
                  Strip(SplitOn(ai_overview_text, <<".", " ">>)[i])],
              LAMBDA s : Len(s) > 20)

has_discounts(overview_lower) ==
    ContainsAny(overview_lower,
                discount_keywords \cup {<<"%"," ","o","f","f">>, <<"$"," ","o","f","f">>})

\* the first n of the sentences joined, or otherwise
joined_or(sentences, n, otherwise) ==
    IF sentences # <<>> THEN Join(<<".", " ">>, Slice(sentences, n)) ELSE otherwise

first_or(sentences, otherwise) ==
    IF sentences # <<>> THEN Slice(sentences[1], 500) ELSE otherwise

\* "Clean ... - remove any JSON-like structures"
unless_json(text, otherwise) == IF LooksLikeJson(text) THEN otherwise ELSE text

\* "Build promo_description"
ai_promo_description(ai_overview_text, business_name) ==
    unless_json(
        IF has_discounts(Lower(ai_overview_text))
        THEN joined_or(sentences_with(ai_overview_text, discount_keywords), 3,
                       Slice(ai_overview_text, 500))
        ELSE IF Len(ai_overview_text) > 50
             THEN first_or(meaningful_sentences(ai_overview_text),
                           business_name \o offers_maintenance)
             ELSE business_name \o offers_maintenance,
        business_name \o offers_maintenance)

\* "Extract service_name from overview"
keyword_or(keyword, otherwise) == IF keyword = NONE THEN otherwise ELSE keyword

ai_service_name(overview_lower) ==
    keyword_or(FirstContained(overview_lower, service_keywords, 1), auto_service)

\* "Build offer_details"
ai_offer_details(ai_overview_text) ==
    unless_json(
        IF has_discounts(Lower(ai_overview_text))
        THEN Slice(ai_overview_text, 1000)
        ELSE joined_or(sentences_with(ai_overview_text, service_sentence_keywords), 5,
                       Slice(ai_overview_text, 1000)),
        professional_services)

\* "Build ad_title and ad_text"
ai_ad_text(ai_overview_text, business_name) ==
    unless_json(Slice(ai_overview_text, 500), business_name \o offers_maintenance)

\* "Use business info from SerpAPI or fallback to competitor data"
ai_website(competitor, business_info) ==
    Or(business_info.website, Get(competitor, "domain", <<>>))

ai_promo_competitor(competitor, business_name, business_info) ==
    [ name    |-> Or(business_info.business_name, business_name),
      domain  |-> Or(ai_website(competitor, business_info),
                     Get(competitor, "domain", <<>>)),
      address |-> Or(Or(business_info.contact, Get(competitor, "address", <<>>)),
                     Get(competitor, "address", <<>>)) ]

\* "Get promo_url from competitor, or use website URL"
url_or(promo_url, otherwise) == IF Truthy(promo_url) THEN promo_url ELSE otherwise

ai_promo_url(competitor, business_info) ==
    url_or(IF Get(competitor, "promo_links", <<>>) # <<>>
           THEN Or(Get(competitor, "url", <<>>), competitor.promo_links[1])
           ELSE <<>>,
           Or(ai_website(competitor, business_info), Get(competitor, "domain", <<>>)))

\* the record built from the overview text and the business info
ai_promo(competitor, business_name, ai_overview_text, business_info) ==
    build_standard_promo(ai_promo_competitor(competitor, business_name, business_info),
                         ai_promo_url(competitor, business_info),
                         ai_service_name(Lower(ai_overview_text)),
                         ai_promo_description(ai_overview_text, business_name),
                         auto_service,
                         ai_offer_details(ai_overview_text),
                         business_name \o <<" ","S","e","r","v","i","c","e","s">>,
                         ai_ad_text(ai_overview_text, business_name),
                         business_info.google_reviews,
                         NoDict)

\* extract_promo_from_ai_overview, from the value get_ai_overview returns:
\* NoDict for None, else [ai_overview, full_data] with a text ai_overview.
\* NoDict is the result None.
extract_promo_from_ai_overview(competitor, overview_data) ==
    IF ~Truthy(Get(competitor, "name", <<>>)) \/ ~DictTruthy(overview_data) THEN NoDict
    ELSE ai_promo(competitor, Get(competitor, "name", <<>>),
                  or_fallback(from_full_data(Get(overview_data, "ai_overview", <<>>),
                                             Get(overview_data, "full_data", <<>>)),
                              Get(competitor, "name", <<>>)),
                  extract_business_info_from_serpapi(Get(overview_data, "full_data", <<>>)))

\* A fetched page of a promo link: the candidates found on it, or the fetch
\* returning None, on which the extractor's .get raises AttributeError.
\* A fetch that reports an error or no HTML gives a page without candidates.
Page(items) == [kind |-> "page", items |-> items]
FetchNone == [kind |-> "none", items |-> <<>>]

process_raises(pages) == \E i \in 1..Len(pages) : pages[i].kind = "none"

\* cleaned_data.get(...) of the section loop of process_fountain_promotions
\* raises AttributeError on a non-empty list; no try block encloses it
cleaned_data_raises(section) ==
    /\ ~fountain_skips(section.text)
    /\ IsList(section.cleaned_data)
    /\ section.cleaned_data.items # <<>>

fountain_raises(pages) ==
    \/ process_raises(pages)
    \/ \E i \in 1..Len(pages) :
          \E k \in 1..Len(pages[i].items) : cleaned_data_raises(pages[i].items[k])

\* process_fountain_promotions: the section loop over every promo link, then
\* the rebate merge and the deduplication
RECURSIVE fountain_all_promos(_, _, _, _, _)
fountain_all_promos(competitor, promo_links, pages, google_reviews, promotions_file) ==
    IF promo_links = <<>> THEN <<>>
    ELSE fountain_section_loop(competitor, Head(promo_links), Head(pages).items,
                               google_reviews, promotions_file) \o
         fountain_all_promos(competitor, Tail(promo_links), Tail(pages),
                             google_reviews, promotions_file)

process_fountain_promotions(competitor, pages, google_reviews, promotions_file) ==
    fountain_deduplicate(
        fountain_all_promos(competitor, Get(competitor, "promo_links", <<>>), pages,
                            google_reviews, promotions_file))

\* process_trail_promotions: the image loop over every promo link, the seen
\* sets shared by all links
RECURSIVE trail_link_loop(_, _, _, _, _)
trail_link_loop(competitor, promo_links, pages, promotions_file, st) ==
    IF promo_links = <<>> THEN st.all_promos
    ELSE trail_link_loop(competitor, Tail(promo_links), Tail(pages), promotions_file,
                         trail_image_loop(competitor, Head(promo_links),
                                          Head(pages).items, promotions_file, st))

process_trail_promotions(competitor, pages, promotions_file) ==
    trail_link_loop(competitor, Get(competitor, "promo_links", <<>>), pages,
                    promotions_file,
                    [all_promos |-> <<>>, seen_image_urls |-> {}, seen_titles |-> {},
                     seen_ocr_hashes |-> {}, seen_image_hashes |-> {}])

(***************************************************************************)
(* Helpers of the deduplication passes                                     *)
(***************************************************************************)
\* brand.title() of a brand-or-None
TitleOrNone(brand) == IF brand = NONE THEN NONE ELSE Title(brand)

\* r'(\d+(?:\.\d+)?)'
NumberPattern ==
    <<Alt(<<Item(Digits, 1, Unbounded)>> \o Lit(<<".">>)
            \o <<Item(Digits, 1, Unbounded)>>, 1, 3),
      Alt(<<Item(Digits, 1, Unbounded)>>, 1, 1)>>

\* float(text) of a decimal numeral, in units of 10^-places
DigitValue(c) == CHOOSE d \in 0..9 : c = <<"0","1","2","3","4","5","6","7","8","9">>[d + 1]
RECURSIVE NatOf(_)
NatOf(digits) ==
    IF digits = <<>> THEN 0
    ELSE 10 * NatOf(SubSeq(digits, 1, Len(digits) - 1)) + DigitValue(digits[Len(digits)])
RECURSIVE Pow10(_)
Pow10(n) == IF n = 0 THEN 1 ELSE 10 * Pow10(n - 1)
FractionLen(numeral) ==
    IF Find(numeral, <<".">>) = 0 THEN 0 ELSE Len(numeral) - Find(numeral, <<".">>)
Scaled(numeral, places) ==
    NatOf(RemoveChars(numeral, {"."})) * Pow10(places - FractionLen(numeral))
\* val1 - val2 in units of 10^-places
Difference(numeral1, numeral2, places) ==
    Scaled(numeral1, places) - Scaled(numeral2, places)
Places(numeral1, numeral2) == Max(FractionLen(numeral1), FractionLen(numeral2))

\* set(title.lower().split())
WordSet(title) == {Split(Lower(title))[i] : i \in DOMAIN Split(Lower(title))}

\* calculate_title_overlap of kal_scraper.py and jiffy_scraper.py, as the
\* test overlap >= percent (the quotient is compared without rounding)
overlap_at_least(words1, words2, percent) ==
    /\ words1 # {} /\ words2 # {}
    /\ 100 * Cardinality(words1 \cap words2) >= percent * Cardinality(words1 \cup words2)

calculate_title_overlap_at_least(title1, title2, percent) ==
    /\ Truthy(title1) /\ Truthy(title2)
    /\ overlap_at_least(WordSet(title1), WordSet(title2), percent)

\* tuples compared as Python compares them
LexLess(a, b) ==
    \E i \in 1..Len(a) : a[i] < b[i] /\ \A j \in 1..(i - 1) : a[j] = b[j]
Bool01(b) == IF b THEN 1 ELSE 0

\* list.remove(x): the list without its first element equal to x
WithoutIndex(list, i) == SubSeq(list, 1, i - 1) \o SubSeq(list, i + 1, Len(list))
RemoveFirst(list, x) ==
    WithoutIndex(list, CHOOSE i \in DOMAIN list :
                          list[i] = x /\ \A j \in 1..(i - 1) : list[j] # x)

(***************************************************************************)
(* midas_scraper.py: are_promos_duplicate and the final deduplication pass *)
(***************************************************************************)
midas_brands ==
    << <<"m","i","c","h","e","l","i","n">>, <<"b","r","i","d","g","e","s","t","o","n","e">>, <<"f","i","r","e","s","t","o","n","e">>, <<"g","o","o","d","y","e","a","r">>, <<"c","o","n","t","i","n","e","n","t","a","l">>,
       <<"p","i","r","e","l","l","i">>, <<"b","f","g","o","o","d","r","i","c","h">>, <<"t","o","y","o">>, <<"n","i","t","t","o">>, <<"h","a","n","k","o","o","k">>, <<"f","a","l","k","e","n">>,
       <<"k","u","m","h","o">>, <<"y","o","k","o","h","a","m","a">>, <<"d","u","n","l","o","p">>, <<"g","e","n","e","r","a","l">>, <<"c","o","o","p","e","r">>, <<"u","n","i","r","o","y","a","l">> >>

\* extract_brand_name of midas_scraper.py
midas_extract_brand_name(text) ==
    TitleOrNone(FirstContained(Lower(text), midas_brands, 1))

\* f"${match.group(1)}" of a match, "" without one
DollarOrEmpty(g) == IF g = NONE THEN <<>> ELSE <<"$">> \o g

\* discount_value, or else the dollar amount found in offer_details
midas_discount_or(discount, promo) ==
    IF discount # <<>> THEN discount
    ELSE DollarOrEmpty(Search(Get(promo, "offer_details", <<>>), DollarPattern))

midas_discount(promo) ==
    midas_discount_or(Or(Get(promo, "discount_value", NONE), <<>>), promo)

\* (promo.get("ad_title") or promo.get("service_name", "")).lower()
midas_title(promo) ==
    Lower(Or(Get(promo, "ad_title", NONE), Get(promo, "service_name", <<>>)))

midas_promo_text(promo) ==
    Lower(Get(promo, "promo_description", <<>>) \o <<" ">> \o
          Get(promo, "ad_text", <<>>) \o <<" ">> \o
          Get(promo, "offer_details", <<>>))

\* "Quick check: same page and same/similar title"
midas_quick_check(promo1, promo2, title1, title2) ==
    /\ Get(promo1, "page_url", <<>>) = Get(promo2, "page_url", <<>>)
    /\ title1 # <<>> /\ title2 # <<>>
    /\ fuzz_ratio(Slice(title1, 120), Slice(title2, 120)) >= 90

\* the rules of are_promos_duplicate after the quick check
midas_rules(discount1, discount2, brand1, brand2, title_similarity, desc_similarity) ==
    IF discount1 # <<>> /\ discount2 # <<>> /\ discount1 # discount2 THEN FALSE
    ELSE IF brand1 # NONE /\ brand2 # NONE /\ brand1 # brand2 THEN FALSE
    ELSE IF (brand1 # NONE) # (brand2 # NONE) /\ title_similarity < 95 THEN FALSE
    ELSE IF title_similarity >= 95 /\ desc_similarity >= 90 THEN TRUE
    ELSE /\ discount1 # <<>> /\ discount2 # <<>> /\ discount1 = discount2
         /\ desc_similarity >= 90

\* are_promos_duplicate of midas_scraper.py
midas_are_promos_duplicate(promo1, promo2) ==
    \/ midas_quick_check(promo1, promo2, midas_title(promo1), midas_title(promo2))
    \/ midas_rules(midas_discount(promo1), midas_discount(promo2),
                   midas_extract_brand_name(midas_promo_text(promo1)),
                   midas_extract_brand_name(midas_promo_text(promo2)),
                   fuzz_ratio(Slice(midas_title(promo1), 200),
                              Slice(midas_title(promo2), 200)),
                   fuzz_ratio(Slice(Lower(Get(promo1, "promo_description", <<>>)), 300),
                              Slice(Lower(Get(promo2, "promo_description", <<>>)), 300)))

\* "Final deduplication pass" of process_midas_promotions
RECURSIVE midas_dedup_loop(_, _)
midas_dedup_step(promo, rest, deduplicated) ==
    IF \E i \in DOMAIN deduplicated : midas_are_promos_duplicate(promo, deduplicated[i])
    THEN midas_dedup_loop(rest, deduplicated)
    ELSE midas_dedup_loop(rest, Append(deduplicated, promo))
midas_dedup_loop(promos, deduplicated) ==
    IF promos = <<>> THEN deduplicated
    ELSE midas_dedup_step(Head(promos), Tail(promos), deduplicated)

midas_deduplicate(all_promos) == midas_dedup_loop(all_promos, <<>>)

(***************************************************************************)
(* kal_scraper.py: are_promos_duplicate, keep_better_promo and the         *)
(* deduplication loop                                                      *)
(***************************************************************************)
kal_tire_brands ==
    << <<"m","i","c","h","e","l","i","n">>, <<"b","r","i","d","g","e","s","t","o","n","e">>, <<"g","o","o","d","y","e","a","r">>, <<"c","o","n","t","i","n","e","n","t","a","l">>, <<"p","i","r","e","l","l","i">>,
       <<"b","f","g","o","o","d","r","i","c","h">>, <<"b","f","g","o","o","d","r","i","c","h">>, <<"t","o","y","o">>, <<"n","i","t","t","o">>, <<"h","a","n","k","o","o","k">>, <<"f","a","l","k","e","n">>,
       <<"k","u","m","h","o">>, <<"y","o","k","o","h","a","m","a">>, <<"d","u","n","l","o","p">>, <<"f","i","r","e","s","t","o","n","e">>, <<"g","e","n","e","r","a","l">>, <<"c","o","o","p","e","r">>,
       <<"u","n","i","r","o","y","a","l">>, <<"n","e","x","e","n">>, <<"h","e","r","c","u","l","e","s">>, <<"m","a","s","t","e","r","c","r","a","f","t">>, <<"g","o","o","d","r","i","c","h">> >>

\* extract_brand_name of kal_scraper.py
kal_extract_brand_name(text) ==
    TitleOrNone(FirstContained(Lower(text), kal_tire_brands, 1))

\* promo.get("brand_name") or extract_brand_name(promo.get("promotion_title", ""))
kal_brand(promo) ==
    Or(Get(promo, "brand_name", NONE),
       kal_extract_brand_name(Get(promo, "promotion_title", <<>>)))

\* "Rule 2: Same brand with discount within $5", on the numerals found
within_five(val1_match, val2_match) ==
    /\ val1_match # NONE /\ val2_match # NONE
    /\ Difference(val1_match, val2_match, Places(val1_match, val2_match))
          <= 5 * Pow10(Places(val1_match, val2_match))
    /\ Difference(val2_match, val1_match, Places(val1_match, val2_match))
          <= 5 * Pow10(Places(val1_match, val2_match))

same_brand(brand1, brand2) ==
    Truthy(brand1) /\ Truthy(brand2) /\ Lower(brand1) = Lower(brand2)

kal_rules(brand1, brand2, discount1, discount2, title1, title2) ==
    \/ /\ same_brand(brand1, brand2)
       /\ Truthy(discount1) /\ Truthy(discount2)
       /\ \/ discount1 = discount2
          \/ within_five(Search(discount1, NumberPattern), Search(discount2, NumberPattern))
    \/ /\ Truthy(discount1) /\ Truthy(discount2) /\ discount1 = discount2
       /\ calculate_title_overlap_at_least(title1, title2, 85)
       /\ same_brand(brand1, brand2) \/ (~Truthy(brand1) /\ ~Truthy(brand2))

\* are_promos_duplicate of kal_scraper.py
kal_are_promos_duplicate(promo1, promo2) ==
    kal_rules(kal_brand(promo1), kal_brand(promo2),
              Get(promo1, "discount_value", <<>>), Get(promo2, "discount_value", <<>>),
              Get(promo1, "promotion_title", <<>>), Get(promo2, "promotion_title", <<>>))

\* sum(1 for k, v in promo.items() if v and k not in ["date_scraped", "ocr_hash"]);
\* new_or_updated is one of three non-empty strings
filled_fields(promo) ==
    Cardinality({k \in DOMAIN promo \ {"date_scraped", "ocr_hash"} :
                    k = "new_or_updated" \/ Truthy(promo[k])})

\* keep_better_promo returns promo1
keeps_first(promo1, promo2) ==
    \/ filled_fields(promo1) > filled_fields(promo2)
    \/ /\ filled_fields(promo1) = filled_fields(promo2)
       /\ Len(Get(promo1, "offer_details", <<>>)) > Len(Get(promo2, "offer_details", <<>>))

keep_better_promo(promo1, promo2) == IF keeps_first(promo1, promo2) THEN promo1 ELSE promo2

\* the body of the loop for a promo that duplicates existing_promo
kal_replace(promo, existing_promo, deduplicated_promos) ==
    IF keep_better_promo(promo, existing_promo) = promo
    THEN Append(RemoveFirst(deduplicated_promos, existing_promo), promo)
    ELSE deduplicated_promos

\* "Deduplicate promotions" of process_kal_promotions
RECURSIVE kal_dedup_loop(_, _)
kal_dedup_step(promo, rest, deduplicated_promos, duplicates) ==
    IF duplicates # {}
    THEN kal_dedup_loop(rest, kal_replace(promo, deduplicated_promos[Kth(duplicates, 1)],
                                          deduplicated_promos))
    ELSE kal_dedup_loop(rest, Append(deduplicated_promos, promo))
kal_dedup_loop(promos, deduplicated_promos) ==
    IF promos = <<>> THEN deduplicated_promos
    ELSE kal_dedup_step(Head(promos), Tail(promos), deduplicated_promos,
                        {i \in DOMAIN deduplicated_promos :
                            kal_are_promos_duplicate(Head(promos), deduplicated_promos[i])})

kal_deduplicate(all_promos) == kal_dedup_loop(all_promos, <<>>)

(***************************************************************************)
(* goodnews_scraper.py: are_promos_duplicate and the deduplication loop    *)
(***************************************************************************)
common_words ==
    { <<"t","h","e">>, <<"a">>, <<"a","n">>, <<"a","n","d">>, <<"o","r">>, <<"b","u","t">>, <<"i","n">>, <<"o","n">>, <<"a","t">>, <<"t","o">>,
      <<"f","o","r">>, <<"o","f">>, <<"w","i","t","h">>, <<"b","y">> }

\* {w for w in words if w not in common_words and len(w) > 2}
content_words(words) == {w \in words : w \notin common_words /\ Len(w) > 2}

\* calculate_title_word_overlap, as the test overlap >= percent
calculate_title_word_overlap_at_least(title1, title2, percent) ==
    /\ Truthy(title1) /\ Truthy(title2)
    /\ WordSet(title1) # {} /\ WordSet(title2) # {}
    /\ overlap_at_least(content_words(WordSet(title1)), content_words(WordSet(title2)),
                        percent)

\* are_promos_duplicate of goodnews_scraper.py
goodnews_are_promos_duplicate(promo1, promo2) ==
    calculate_title_word_overlap_at_least(Get(promo1, "promotion_title", <<>>),
                                          Get(promo2, "promotion_title", <<>>), 70)

\* "Deduplicate by 70%+ title word overlap" of process_goodnews_promotions
RECURSIVE goodnews_dedup_loop(_, _)
goodnews_dedup_step(promo, rest, seen) ==
    IF \E i \in DOMAIN seen : goodnews_are_promos_duplicate(promo, seen[i])
    THEN goodnews_dedup_loop(rest, seen)
    ELSE goodnews_dedup_loop(rest, Append(seen, promo))
goodnews_dedup_loop(promos, seen) ==
    IF promos = <<>> THEN seen
    ELSE goodnews_dedup_step(Head(promos), Tail(promos), seen)

goodnews_deduplicate(all_promos) == goodnews_dedup_loop(all_promos, <<>>)

(***************************************************************************)
(* jiffy_scraper.py: normalize_title, are_promos_similar, merge_promos and *)
(* "Step 4: Deduplicate using complex rules"                               *)
(***************************************************************************)
generic_phrases ==
    { <<"g","e","t">>, <<"c","o","u","p","o","n">>, <<"o","f","f"," ","a">>, <<"e","x","p","i","r","e","s">>, <<"b","a","r","c","o","d","e">>, <<"v","a","l","i","d">>, <<"o","f","f","e","r">>,
      <<"s","a","v","e">>, <<"n","o","w">>, <<"l","i","m","i","t","e","d">>, <<"t","i","m","e">>, <<"o","n","l","y">>, <<"c","l","i","c","k">>, <<"h","e","r","e">>, <<"s","e","e">>,
      <<"m","o","r","e">>, <<"d","e","t","a","i","l","s">>, <<"t","e","r","m","s">>, <<"a","p","p","l","y">>, <<"c","o","n","d","i","t","i","o","n","s">> }

\* re.sub(r'[^\w\s]', '', word)
clean_word(word) == SelectSeq(word, LAMBDA c : c \in WordChars \cup SpaceCls)

\* normalize_title of jiffy_scraper.py
jiffy_normalize_title(title) ==
    IF ~Truthy(title) THEN <<>>
    ELSE Join(<<" ">>, SelectSeq(Split(Strip(Lower(title))),
                                 LAMBDA word : clean_word(word) \notin generic_phrases))

\* promo.get("normalized_title") or normalize_title(promo.get("promotion_title", ""))
jiffy_title(promo) ==
    Or(Get(promo, "normalized_title", NONE),
       jiffy_normalize_title(Get(promo, "promotion_title", <<>>)))

same_code(code1, code2) == Truthy(code1) /\ Truthy(code2) /\ code1 = code2

jiffy_rules(discount1, discount2, code1, code2, title1, title2) ==
    \/ title1 = title2 /\ title1 # <<>>
    \/ same_code(code1, code2) /\ discount1 # discount2
    \/ calculate_title_overlap_at_least(title1, title2, 80)
    \/ /\ discount1 = discount2 \/ same_code(code1, code2)
       /\ calculate_title_overlap_at_least(title1, title2, 60)

\* are_promos_similar
are_promos_similar(promo1, promo2) ==
    jiffy_rules(Get(promo1, "discount_value", NONE), Get(promo2, "discount_value", NONE),
                Get(promo1, "coupon_code", NONE), Get(promo2, "coupon_code", NONE),
                jiffy_title(promo1), jiffy_title(promo2))

\* val1 >= val2 of the numerals found in two discount values
at_least(numeral1, numeral2) ==
    Difference(numeral1, numeral2, Places(numeral1, numeral2)) >= 0

\* "Merge discount values (prefer the higher one if both are dollar amounts)":
\* the entries the merge sets
merged_discount(discount1, discount2, val1_match, val2_match) ==
    IF Truthy(discount1) /\ Truthy(discount2)
    THEN [discount_value |->
             IF val1_match # NONE /\ val2_match # NONE /\ ~at_least(val1_match, val2_match)
             THEN discount2 ELSE discount1]
    ELSE IF Truthy(discount2) THEN [discount_value |-> discount2]
    ELSE <<>>

\* "Merge offer details (keep the longer/more complete one)"
merged_details(details1, details2) ==
    [offer_details |-> IF Len(details1) >= Len(details2) THEN details1 ELSE details2]

\* "Merge other fields (prefer non-empty values)"
merged_others(promo1, promo2) ==
    [key \in {k \in {"coupon_code", "expiry_date", "promotion_title"} :
                 ~Truthy(Get(promo1, k, NONE)) /\ Truthy(Get(promo2, k, NONE))} |->
        promo2[key]]

\* the dict base updated with the entries of the dicts in updates
Updated(base, updates) ==
    [k \in DOMAIN base \cup UNION {DOMAIN updates[i] : i \in DOMAIN updates} |->
        IF \E i \in DOMAIN updates : k \in DOMAIN updates[i]
        THEN updates[CHOOSE i \in DOMAIN updates : k \in DOMAIN updates[i]][k]
        ELSE base[k]]

\* merge_promos
merge_promos(promo1, promo2) ==
    Updated(promo1,
            << merged_discount(Get(promo1, "discount_value", NONE),
                               Get(promo2, "discount_value", NONE),
                               Search(Get(promo1, "discount_value", <<>>), NumberPattern),
                               Search(Get(promo2, "discount_value", <<>>), NumberPattern)),
               merged_details(Get(promo1, "offer_details", <<>>),
                              Get(promo2, "offer_details", <<>>)),
               merged_others(promo1, promo2) >>)

\* dict insertion order: the first index of every distinct key, and the
\* indices that share the key of index i
first_of_key(keys) == {i \in DOMAIN keys : \A j \in 1..(i - 1) : keys[j] # keys[i]}
group_of(keys, i) == {j \in DOMAIN keys : keys[j] = keys[i]}

\* max(group, key=...): the first index of the group with the greatest rank
best_of(group, ranks) ==
    CHOOSE j \in group :
       /\ \A k \in group : ~LexLess(ranks[j], ranks[k])
       /\ \A k \in group : k < j => LexLess(ranks[k], ranks[j])

\* "Group 1: By discount_value + coupon_code" and "Select best promo from each
\* discount+code group"
discount_code_key(promo) ==
    << Or(Get(promo, "discount_value", NONE), <<"n","o","n","e">>),
       Or(Get(promo, "coupon_code", NONE), <<"n","o","n","e">>) >>

discount_code_rank(promo) ==
    << Len(Get(promo, "offer_details", <<>>)), Len(Get(promo, "promotion_title", <<>>)),
       Bool01(Truthy(Get(promo, "coupon_code", NONE))),
       Bool01(Truthy(Get(promo, "expiry_date", NONE))) >>

best_of_groups(promos, keys, ranks) ==
    [n \in 1..Cardinality(first_of_key(keys)) |->
        promos[best_of(group_of(keys, Kth(first_of_key(keys), n)), ranks)]]

deduplicated_by_discount_code(all_promos) ==
    best_of_groups(all_promos,
                   [i \in DOMAIN all_promos |-> discount_code_key(all_promos[i])],
                   [i \in DOMAIN all_promos |-> discount_code_rank(all_promos[i])])

\* "Group 2: By normalized title (if no discount/code)"
has_discount_or_code(promo) ==
    Truthy(Get(promo, "discount_value", NONE)) \/ Truthy(Get(promo, "coupon_code", NONE))

in_title_group(promo) ==
    /\ ~has_discount_or_code(promo)
    /\ Truthy(Get(promo, "normalized_title", <<>>))
    /\ Len(Split(Get(promo, "normalized_title", <<>>))) >= 3

title_rank(promo) ==
    << Len(Get(promo, "offer_details", <<>>)), Len(Get(promo, "promotion_title", <<>>)),
       Bool01(Truthy(Get(promo, "expiry_date", NONE))) >>

title_keys(grouped) == [i \in DOMAIN grouped |-> grouped[i].normalized_title]
title_ranks(grouped) == [i \in DOMAIN grouped |-> title_rank(grouped[i])]

\* "Select best promo from each title group"
best_by_title(grouped) ==
    best_of_groups(grouped, title_keys(grouped), title_ranks(grouped))

\* id(promo) in title_grouped_indices: the promo is in a title group and is
\* not equal to the best of that group
title_grouped(promo, grouped) ==
    /\ in_title_group(promo)
    /\ promo # grouped[best_of({j \in DOMAIN grouped :
                                   grouped[j].normalized_title = promo.normalized_title},
                               title_ranks(grouped))]

\* "Add promos that weren't grouped by title"
RECURSIVE add_ungrouped(_, _, _)
add_ungrouped(promos, grouped, final_promos) ==
    IF promos = <<>> THEN final_promos
    ELSE add_ungrouped(Tail(promos), grouped,
            IF /\ has_discount_or_code(Head(promos)) \/ ~title_grouped(Head(promos), grouped)
               /\ \A i \in DOMAIN final_promos : final_promos[i] # Head(promos)
            THEN Append(final_promos, Head(promos))
            ELSE final_promos)

deduplicated_by_title(promos) ==
    add_ungrouped(promos, SelectSeq(promos, in_title_group),
                  best_by_title(SelectSeq(promos, in_title_group)))

\* the log line of a merge slices promotion_title: TypeError when it is None
TypeErrorRaised == <<[raised |-> "TypeError"]>>
merge_log_raises(merged, promo2) ==
    \/ Get(merged, "promotion_title", NONE) = NONE
    \/ Get(promo2, "promotion_title", NONE) = NONE

\* "Final pass: Merge promos with same code but different discounts, and
\* similar titles": the inner loop from index j on
RECURSIVE jiffy_absorb(_, _, _, _)
jiffy_absorb(final_promos, j, merged, processed) ==
    IF j > Len(final_promos)
    THEN [merged |-> merged, processed |-> processed, raised |-> FALSE]
    ELSE IF j \in processed \/ ~are_promos_similar(merged, final_promos[j])
    THEN jiffy_absorb(final_promos, j + 1, merged, processed)
    ELSE IF merge_log_raises(merge_promos(merged, final_promos[j]), final_promos[j])
    THEN [merged |-> merged, processed |-> processed, raised |-> TRUE]
    ELSE jiffy_absorb(final_promos, j + 1, merge_promos(merged, final_promos[j]),
                      processed \cup {j})

RECURSIVE jiffy_merge_loop(_, _, _, _)
jiffy_merge_from(final_promos, i, absorbed, merged_promos) ==
    IF absorbed.raised THEN TypeErrorRaised
    ELSE jiffy_merge_loop(final_promos, i + 1, absorbed.processed,
                          Append(merged_promos, absorbed.merged))
jiffy_merge_loop(final_promos, i, processed, merged_promos) ==
    IF i > Len(final_promos) THEN merged_promos
    ELSE IF i \in processed
    THEN jiffy_merge_loop(final_promos, i + 1, processed, merged_promos)
    ELSE jiffy_merge_from(final_promos, i,
                          jiffy_absorb(final_promos, i + 1, final_promos[i],
                                       processed \cup {i}),
                          merged_promos)

\* "Step 4: Deduplicate using complex rules" of process_jiffy_promotions
jiffy_deduplicate(all_promos) ==
    jiffy_merge_loop(deduplicated_by_title(deduplicated_by_discount_code(all_promos)),
                     1, {}, <<>>)

(***************************************************************************)
(* sheets_merger.py: deduplicate_promotions over the records of the saved  *)
(* files                                                                   *)
(***************************************************************************)
\* "fountain" in business_name and "tire" in business_name
is_fountain_tire(promo) ==
    /\ Contains(Lower(Get(promo, "business_name", <<>>)), <<"f","o","u","n","t","a","i","n">>)
    /\ Contains(Lower(Get(promo, "business_name", <<>>)), <<"t","i","r","e">>)

\* the test of the "standard deduplication" against one seen record
merger_is_duplicate(promo, seen_promo) ==
    /\ Lower(Get(promo, "business_name", <<>>)) = Lower(Get(seen_promo, "business_name", <<>>))
    /\ Lower(Get(promo, "service_name", <<>>)) = Lower(Get(seen_promo, "service_name", <<>>))
    /\ \/ fuzz_ratio(Lower(Get(promo, "ad_title", <<>>)),
                     Lower(Get(seen_promo, "ad_title", <<>>))) >= 90
       \/ fuzz_ratio(Lower(Get(promo, "offer_details", <<>>)),
                     Lower(Get(seen_promo, "offer_details", <<>>))) >= 90

\* "Process other competitors with standard deduplication"
RECURSIVE merger_other_loop(_, _)
merger_other_step(promo, rest, seen) ==
    IF \E i \in DOMAIN seen : merger_is_duplicate(promo, seen[i])
    THEN merger_other_loop(rest, seen)
    ELSE merger_other_loop(rest, Append(seen, promo))
merger_other_loop(other_promos, seen) ==
    IF other_promos = <<>> THEN seen
    ELSE merger_other_step(Head(other_promos), Tail(other_promos), seen)

\* deduplicate_promotions: the Fountain Tire records under the rules of
\* fountain_scraper.py first, then the other records
deduplicate_promotions(promos) ==
    merger_other_loop(SelectSeq(promos, LAMBDA promo : ~is_fountain_tire(promo)),
                      fountain_dedup_loop(SelectSeq(promos, is_fountain_tire), <<>>, {}))

(***************************************************************************)
(* ads_extractor.py: the promotional Google Ads of a competitor            *)
(***************************************************************************)
DISCOUNT_SYMBOLS == << <<"$">>, <<"%">>, <<"o","f","f">>, <<"s","a","v","e">>, <<"d","i","s","c","o","u","n","t">>, <<"d","e","a","l">> >>
PROMO_WORDS == << <<"s","p","e","c","i","a","l">>, <<"p","r","o","m","o">>, <<"p","r","o","m","o","t","i","o","n">>, <<"c","o","u","p","o","n">>, <<"r","e","b","a","t","e">>, <<"b","o","n","u","s">> >>
FREE_WORDS == << <<"f","r","e","e">>, <<"c","o","m","p","l","i","m","e","n","t","a","r","y">> >>
LIMITED_TIME_WORDS == << <<"s","a","l","e">>, <<"l","i","m","i","t","e","d"," ","t","i","m","e">>, <<"s","p","e","c","i","a","l"," ","o","f","f","e","r">> >>
strong_keywords == << <<"s","a","l","e">>, <<"o","f","f","e","r">>, <<"s","a","v","e">>, <<"f","r","e","e">>, <<"l","i","m","i","t","e","d">>, <<"s","p","e","c","i","a","l"," ","o","f","f","e","r">> >>

\* any(word in text for word in words)
AnyContained(text, words) == \E i \in DOMAIN words : Contains(text, words[i])

\* str(n) of a natural number
Digits10 == <<"0","1","2","3","4","5","6","7","8","9">>
RECURSIVE NatText(_)
NatText(n) ==
    IF n < 10 THEN <<Digits10[n + 1]>> ELSE NatText(n \div 10) \o <<Digits10[(n % 10) + 1]>>

\* [:\s]+ and the code with what ends it, (?:\s|$|[.,;!?]); the text searched
\* is given one blank after its end, which stands for $
SepItem == Item(SpaceCls \cup {":"}, 1, Unbounded)
CodeEnd == SpaceCls \cup {".", ",", ";", "!", "?"}
CodeItems == <<SepItem, Item(AlnumI, 3, Unbounded), Item(CodeEnd, 1, 1)>>

\* (?:use|enter|apply)[:\s]+(?:promo[:\s]+)?(?:code|coupon)[:\s]+([A-Z0-9]{3,})(?:\s|$|[.,;!?])
UseCode(verb, promo, keyword) ==
    Alt(LitI(verb) \o <<SepItem>> \o promo \o LitI(keyword) \o CodeItems,
        Len(verb) + 1 + Len(promo) + Len(keyword) + 2,
        Len(verb) + 1 + Len(promo) + Len(keyword) + 2)
WithPromo == LitI(<<"p","r","o","m","o">>) \o <<SepItem>>
use_code_pattern ==
    << UseCode(<<"u","s","e">>, WithPromo, <<"c","o","d","e">>), UseCode(<<"u","s","e">>, WithPromo, <<"c","o","u","p","o","n">>),
       UseCode(<<"u","s","e">>, <<>>, <<"c","o","d","e">>), UseCode(<<"u","s","e">>, <<>>, <<"c","o","u","p","o","n">>),
       UseCode(<<"e","n","t","e","r">>, WithPromo, <<"c","o","d","e">>), UseCode(<<"e","n","t","e","r">>, WithPromo, <<"c","o","u","p","o","n">>),
       UseCode(<<"e","n","t","e","r">>, <<>>, <<"c","o","d","e">>), UseCode(<<"e","n","t","e","r">>, <<>>, <<"c","o","u","p","o","n">>),
       UseCode(<<"a","p","p","l","y">>, WithPromo, <<"c","o","d","e">>), UseCode(<<"a","p","p","l","y">>, WithPromo, <<"c","o","u","p","o","n">>),
       UseCode(<<"a","p","p","l","y">>, <<>>, <<"c","o","d","e">>), UseCode(<<"a","p","p","l","y">>, <<>>, <<"c","o","u","p","o","n">>) >>

\* (?:code|coupon):\s+([A-Z0-9]{3,})(?:\s|$|[.,;!?])
ColonCode(keyword) ==
    Alt(LitI(keyword) \o Lit(<<":">>)
            \o <<Item(SpaceCls, 1, Unbounded), Item(AlnumI, 3, Unbounded), Item(CodeEnd, 1, 1)>>,
        Len(keyword) + 3, Len(keyword) + 3)
code_pattern == << ColonCode(<<"c","o","d","e">>), ColonCode(<<"c","o","u","p","o","n">>) >>

\* \b([A-Z]{2,}\d{2,})\b under re.IGNORECASE: a word made of two or more
\* letters followed by two or more digits; the first such word, or NONE
standalone_at(text, i, letters_end, digits_end) ==
    /\ text[i] \in Letters
    /\ i = 1 \/ text[i - 1] \notin WordChars
    /\ letters_end - i + 1 >= 2
    /\ digits_end - letters_end >= 2
    /\ digits_end = Len(text) \/ text[digits_end + 1] \notin WordChars
standalone_end(text, i) == RunEnd(text, RunEnd(text, i, Letters) + 1, Digits)
standalone_starts(text) ==
    {i \in 1..Len(text) :
        standalone_at(text, i, RunEnd(text, i, Letters), standalone_end(text, i))}
standalone_code(text, starts) ==
    IF starts = {} THEN NONE
    ELSE SubSeq(text, Kth(starts, 1), standalone_end(text, Kth(starts, 1)))

\* extract_coupon_code of ads_extractor.py.  match_upper is upper case and
\* the excluded words are lower case, so the first match of a pattern is
\* returned.
ads_extract_coupon_code(text) ==
    UpperOrNone(Or(Or(Search(text \o <<" ">>, use_code_pattern),
                      Search(text \o <<" ">>, code_pattern)),
                   standalone_code(text, standalone_starts(text))))

\* re.findall(pattern, text) as the set of the groups matched
FindAll(text, alts) ==
    {GroupAt(text, pos, alts, 1) : pos \in {p \in 1..Len(text) : GroupAt(text, p, alts, 1) # NONE}}

\* r'(\d+)%'; a match that starts inside a run of digits is a suffix of the
\* match that starts at the run's first digit, so the greatest is the same
AdsPercentPattern == <<Alt(<<Item(Digits, 1, Unbounded)>> \o Lit(<<"%">>), 1, 1)>>

\* re.search(rf'\b{word}\b', text, re.IGNORECASE)
HasWord(text, word) ==
    \E i \in 1..Len(text) :
        MatchAt(Lower(text), i, word) /\ WordBoundary(text, i)
                                      /\ WordBoundary(text, i + Len(word))

\* the digits of a fraction: padded on the left to places digits, and without
\* the zeros at its end
PadZeros(digits, places) == [i \in 1..(places - Len(digits)) |-> "0"] \o digits
RStripZeros(digits) ==
    SubSeq(digits, 1, Greatest({0} \cup {i \in 1..Len(digits) : digits[i] # "0"}))

\* f"${int(max_amount)}" or f"${max_amount}" of the greatest amount, given
\* in units of 10^-places
dollar_text(scaled, places) ==
    IF scaled % Pow10(places) = 0 THEN <<"$">> \o NatText(scaled \div Pow10(places))
    ELSE <<"$">> \o NatText(scaled \div Pow10(places)) \o <<".">>
            \o RStripZeros(PadZeros(NatText(scaled % Pow10(places)), places))

max_dollar(dollar_matches, places) ==
    dollar_text(Greatest({Scaled(m, places) : m \in dollar_matches}), places)

\* extract_discount_value of ads_extractor.py
ads_discount_from(text, dollar_matches, percent_matches) ==
    IF dollar_matches # {}
    THEN max_dollar(dollar_matches, Greatest({FractionLen(m) : m \in dollar_matches}))
    ELSE IF percent_matches # {}
    THEN NatText(Greatest({NatOf(p) : p \in percent_matches})) \o <<"%">>
    ELSE IF HasWord(text, <<"f","r","e","e">>) THEN <<"F","r","e","e">>
    ELSE IF HasWord(text, <<"c","o","m","p","l","i","m","e","n","t","a","r","y">>) THEN <<"C","o","m","p","l","i","m","e","n","t","a","r","y">>
    ELSE NONE

ads_extract_discount_value(text) ==
    ads_discount_from(text, FindAll(text, DollarPattern), FindAll(text, AdsPercentPattern))

\* f"{title} {snippet} {description}" of an ad
combined_of(ad) ==
    Get(ad, "title", <<>>) \o <<" ">> \o Get(ad, "snippet", <<>>) \o <<" ">>
        \o Get(ad, "description", <<>>)

location_words == << <<"e","d","m","o","n","t","o","n">>, <<"c","a","n","a","d","a">>, <<"a","l","b","e","r","t","a">>, <<"l","o","c","a","t","i","o","n">>, <<"a","d","d","r","e","s","s">>, <<"c","o","n","t","a","c","t">>, <<"p","h","o","n","e">> >>

\* has_promo_content of ads_extractor.py, for the stripped lower-case text
ad_promo_content(combined_text, business_name) ==
    /\ combined_text # <<>>
    /\ ~ /\ business_name # <<>>
         /\ WordSet(combined_text) \subseteq
               (WordSet(business_name) \cup {location_words[i] : i \in DOMAIN location_words})
    /\ \/ AnyContained(combined_text, DISCOUNT_SYMBOLS)
       \/ AnyContained(combined_text, PROMO_WORDS)
       \/ AnyContained(combined_text, FREE_WORDS)
       \/ AnyContained(combined_text, LIMITED_TIME_WORDS)
       \/ ads_extract_coupon_code(combined_text) # NONE

ad_has_promo_content(ad) ==
    ad_promo_content(Strip(Lower(combined_of(ad))), Lower(Get(ad, "business_name", <<>>)))

\* normalize_text_for_dedup of ads_extractor.py
ads_normalize_text_for_dedup(text) == Join(<<" ">>, Split(Lower(text)))

\* the patterns of extract_discount_phrase, each with group 0 as its group
Phrase(items) == <<Alt(items, 1, Len(items))>>
Amount == Lit(<<"$">>) \o <<Item(Digits, 1, Unbounded)>>
AmountCents == Amount \o Lit(<<".">>) \o <<Item(Digits, 1, Unbounded)>>
Percent == <<Item(Digits, 1, Unbounded)>> \o Lit(<<"%">>)
Blanks == <<Item(SpaceCls, 1, Unbounded)>>
Word == <<Item(WordChars, 1, Unbounded)>>
discount_phrase_patterns ==
    << <<Alt(AmountCents \o Blanks \o LitI(<<"o","f","f">>), 1, Len(AmountCents) + 4),
         Alt(Amount \o Blanks \o LitI(<<"o","f","f">>), 1, Len(Amount) + 4)>>,
       Phrase(Percent \o Blanks \o LitI(<<"o","f","f">>)),
       <<Alt(LitI(<<"s","a","v","e">>) \o Blanks \o AmountCents, 1, 5 + Len(AmountCents)),
         Alt(LitI(<<"s","a","v","e">>) \o Blanks \o Amount, 1, 5 + Len(Amount))>>,
       Phrase(LitI(<<"s","a","v","e">>) \o Blanks \o Percent),
       <<Alt(AmountCents \o Blanks \o LitI(<<"d","i","s","c","o","u","n","t">>), 1, Len(AmountCents) + 9),
         Alt(Amount \o Blanks \o LitI(<<"d","i","s","c","o","u","n","t">>), 1, Len(Amount) + 9)>>,
       Phrase(Percent \o Blanks \o LitI(<<"d","i","s","c","o","u","n","t">>)),
       Phrase(LitI(<<"f","r","e","e">>) \o Blanks \o Word),
       Phrase(LitI(<<"c","o","m","p","l","i","m","e","n","t","a","r","y">>) \o Blanks \o Word) >>

\* extract_discount_phrase of ads_extractor.py
extract_discount_phrase(text) ==
    IF FirstSearch(text, discount_phrase_patterns, 1) = NONE THEN NONE
    ELSE Lower(FirstSearch(text, discount_phrase_patterns, 1))

\* the points calculate_promo_score gives for a discount value
discount_points(discount_value) ==
    IF ~Truthy(discount_value) THEN 0
    ELSE IF StartsWith(discount_value, <<"$">>)
    THEN Scaled(RemoveChars(discount_value, {"$"}), FractionLen(discount_value))
            \div Pow10(FractionLen(discount_value))
    ELSE IF discount_value[Len(discount_value)] = "%"
    THEN NatOf(RemoveChars(discount_value, {"%"}))
    ELSE IF Lower(discount_value) \in {<<"f","r","e","e">>, <<"c","o","m","p","l","i","m","e","n","t","a","r","y">>} THEN 50
    ELSE 0

RECURSIVE keyword_points(_, _)
keyword_points(combined_text, k) ==
    IF k > Len(strong_keywords) THEN 0
    ELSE (IF Contains(combined_text, strong_keywords[k]) THEN 10 ELSE 0)
            + keyword_points(combined_text, k + 1)

promo_score_of(combined_text) ==
    discount_points(ads_extract_discount_value(combined_text))
        + (IF Truthy(ads_extract_coupon_code(combined_text)) THEN 30 ELSE 0)
        + keyword_points(combined_text, 1)

\* calculate_promo_score of ads_extractor.py
calculate_promo_score(ad) == promo_score_of(Lower(combined_of(ad)))

\* the elements of a set of positions, in ascending order
Ordered(S) == SubSeq([k \in 1..Cardinality(S) |-> Kth(S, k)], 1, Cardinality(S))

\* a dict of lists filled in one pass over the ads: the positions that share
\* the key of position i, and the first positions of the groups that have
\* more than one ad (keys[i] = NONE: the ad is in no group)
group_at(keys, i) == {j \in DOMAIN keys : keys[j] = keys[i]}
repeated_firsts(keys) ==
    {i \in DOMAIN keys : /\ keys[i] # NONE
                         /\ \A j \in 1..(i - 1) : keys[j] # keys[i]
                         /\ Cardinality(group_at(keys, i)) > 1}

\* duplicate_groups of deduplicate_ads: the title+description groups, then
\* the discount-phrase groups that span more than one title+description group
duplicate_groups(title_desc_keys, phrases) ==
    [k \in DOMAIN Ordered(repeated_firsts(title_desc_keys)) |->
        group_at(title_desc_keys, Ordered(repeated_firsts(title_desc_keys))[k])]
    \o SelectSeq([k \in DOMAIN Ordered(repeated_firsts(phrases)) |->
                    group_at(phrases, Ordered(repeated_firsts(phrases))[k])],
                 LAMBDA group : Cardinality({title_desc_keys[j] : j \in group}) > 1)

\* scored_ads.sort(reverse=True, key=score)[:keep]: the sort is stable
score_rank(group, scores, i) ==
    Cardinality({j \in group : \/ scores[j] > scores[i]
                               \/ scores[j] = scores[i] /\ j < i})
most_promotional(group, scores, keep) ==
    [r \in 1..Min(keep, Cardinality(group)) |->
        CHOOSE i \in group : score_rank(group, scores, i) = r - 1]

\* "Then, process duplicate groups" of deduplicate_ads
RECURSIVE add_groups(_, _, _, _)
add_groups(groups, g, scores, deduplicated) ==
    IF g > Len(groups) THEN deduplicated
    ELSE add_groups(groups, g + 1, scores,
                    deduplicated \o SelectSeq(most_promotional(groups[g], scores, 2),
                                              LAMBDA i : \A k \in DOMAIN deduplicated :
                                                            deduplicated[k] # i))

\* the positions of the ads deduplicate_ads returns, in the order of its result
deduplicated_from(ads, groups, scores) ==
    add_groups(groups, 1, scores,
               SelectSeq(Ordered(DOMAIN ads),
                         LAMBDA i : \A g \in DOMAIN groups : i \notin groups[g]))

deduplicated_positions(ads) ==
    deduplicated_from(ads,
        duplicate_groups(
            SubSeq([i \in DOMAIN ads |-> ads_normalize_text_for_dedup(combined_of(ads[i]))], 1, Len(ads)),
            SubSeq([i \in DOMAIN ads |-> extract_discount_phrase(combined_of(ads[i]))], 1, Len(ads))),
        SubSeq([i \in DOMAIN ads |-> calculate_promo_score(ads[i])], 1, Len(ads)))

\* deduplicate_ads of ads_extractor.py
At(list, positions) ==
    SubSeq([k \in DOMAIN positions |-> list[positions[k]]], 1, Len(positions))
deduplicate_ads(ads) == At(ads, deduplicated_positions(ads))

\* "Filter only promotional ads" of extract_ads_for_competitor
ad_with_metadata(ad, business_name) ==
    [k \in DOMAIN ad \cup {"business_name"} |->
        IF k = "business_name" THEN business_name ELSE ad[k]]
promo_ads_of(business_name, ads) ==
    At(ads, SelectSeq(Ordered(DOMAIN ads), LAMBDA i : ad_has_promo_content(ads[i])))
with_metadata(promo_ads, business_name) ==
    SubSeq([k \in DOMAIN promo_ads |-> ad_with_metadata(promo_ads[k], business_name)],
           1, Len(promo_ads))
promo_ads_with_metadata(business_name, ads) ==
    with_metadata(promo_ads_of(business_name, ads), business_name)

\* the positions, among the promotional ads, of the ads kept
final_positions(promo_ads, limit) == Slice(deduplicated_positions(promo_ads), limit)

\* extract_ads_for_competitor of ads_extractor.py; ads is what get_google_ads
\* returned, a list or None
extract_ads_for_competitor(competitor, ads, limit) ==
    IF ~Truthy(Get(competitor, "name", <<>>)) THEN <<>>
    ELSE IF ~IsList(ads) THEN <<>>
    ELSE IF ads.items = <<>> THEN <<>>
    ELSE Slice(deduplicate_ads(promo_ads_with_metadata(competitor.name, ads.items)), limit)

(***************************************************************************)
(* speedy_scraper.py: the discount value of an image's OCR text            *)
(***************************************************************************)
\* r'\$(\d+)'
WholeDollarPattern == <<Alt(Lit(<<"$">>) \o <<Item(Digits, 1, Unbounded)>>, 2, 2)>>

\* "Extract discount value from OCR text for comparison" of
\* process_speedy_promotions
speedy_discount_from(ocr_text, percent_match, dollar_match) ==
    IF Contains(ocr_text, <<"%">>)
    THEN (IF percent_match # NONE THEN percent_match \o <<"%">> ELSE NONE)
    ELSE IF Contains(ocr_text, <<"$">>)
    THEN (IF dollar_match # NONE THEN <<"$">> \o dollar_match ELSE NONE)
    ELSE IF Contains(Lower(ocr_text), <<"f","r","e","e">>) THEN <<"f","r","e","e">>
    ELSE NONE

speedy_extracted_discount(ocr_text) ==
    speedy_discount_from(ocr_text, Search(ocr_text, PercentPattern),
                         Search(ocr_text, WholeDollarPattern))

(***************************************************************************)
(* The competitors and what their sites, the OCR, the LLM cleaner and      *)
(* SerpAPI can answer                                                      *)
(***************************************************************************)
FountainTire ==
    [ name        |-> <<"F","o","u","n","t","a","i","n"," ","T","i","r","e">>,
      domain      |-> <<"f","o","u","n","t","a","i","n","t","i","r","e",".","c","o","m">>,
      address     |-> <<"E","d","m","o","n","t","o","n",","," ","A","B">>,
      promo_links |-> << <<"h","t","t","p","s",":","/","/","w","w","w",".","f","o","u","n","t","a","i","n","t","i","r","e",".","c","o","m","/","p","r","o","m","o","t","i","o","n","s","/">> >> ]
TrailTire ==
    [ name        |-> <<"T","r","a","i","l"," ","T","i","r","e">>,
      domain      |-> <<"t","r","a","i","l","t","i","r","e",".","c","o","m">>,
      address     |-> <<"E","d","m","o","n","t","o","n",","," ","A","B">>,
      promo_links |-> << <<"h","t","t","p","s",":","/","/","t","r","a","i","l","t","i","r","e",".","c","o","m","/","p","r","o","m","o","t","i","o","n","s","/">> >> ]
MrLube ==
    [ name        |-> <<"M","r","."," ","L","u","b","e">>,
      domain      |-> <<"m","r","l","u","b","e",".","c","o","m">>,
      address     |-> <<"E","d","m","o","n","t","o","n",","," ","A","B">>,
      promo_links |-> << <<"h","t","t","p","s",":","/","/","w","w","w",".","m","r","l","u","b","e",".","c","o","m","/","o","f","f","e","r","s","/">> >> ]
Competitors == {FountainTire, TrailTire, MrLube}

\* a section of a Fountain Tire page with the LLM cleaner's answer for it
Section(text, cleaned_data) == [text |-> text, cleaned_data |-> cleaned_data]

F_plain == Section(<<"S","a","v","e"," ","$","2","0"," ","o","n"," ","o","i","l"," ","c","h","a","n","g","e">>, NoDict)
F_spaced == Section(<<"S","a","v","e"," ","$","2","0"," ","o","n"," "," ","o","i","l"," ","c","h","a","n","g","e">>, NoDict)
F_ocr == Section(<<"S","a","v","e"," ","$","2","0"," ","o","n"," ","o","i","l"," ","c","h","a","n","g","e","\n","\n","W","i","n","t","e","r">>, NoDict)
F_llm == Section(<<"G","e","t"," ","1","0","%"," ","o","f","f"," ","a","l","l"," ","t","i","r","e","s">>,
                 [ service_name      |-> <<"T","i","r","e"," ","S","a","l","e">>,
                   promo_description |-> <<"1","0","%"," ","o","f","f"," ","t","i","r","e","s">>,
                   category          |-> <<"t","i","r","e","s">> ])
F_list == Section(<<"S","a","v","e"," ","$","3","0"," ","o","n"," ","b","r","a","k","e"," ","s","e","r","v","i","c","e"," ","t","o","d","a","y">>,
                  JsonList(<< [ service_name      |-> <<"B","r","a","k","e","s">>,
                                promo_description |-> <<"$","3","0"," ","o","f","f"," ","b","r","a","k","e"," ","s","e","r","v","i","c","e">> ] >>))
F_template == Section(<<"{","{"," ","p","r","o","m","o"," ","}","}"," ","s","a","v","e"," ","o","n"," ","t","i","r","e","s">>, NoDict)
F_short == Section(<<"B","i","g"," ","s","a","l","e">>, NoDict)
F_code == Section(<<"U","s","e"," ","c","o","d","e"," ","S","A","V","E","5"," ","u","n","t","i","l"," ","5","/","1","/","2","0","2","5"," ","o","n"," ","t","i","r","e","s">>, NoDict)
\* the LLM names the service with an underscore
F_under == Section(<<"S","a","v","e"," ","$","1","5"," ","o","n"," ","y","o","u","r"," ","o","i","l"," ","c","h","a","n","g","e">>,
                   [ service_name      |-> <<"o","i","l","_","c","h","a","n","g","e">>,
                     promo_description |-> <<"$","1","5"," ","o","f","f"," ","o","i","l"," ","c","h","a","n","g","e">>,
                     category          |-> <<"o","i","l"," ","c","h","a","n","g","e">> ])

FountainPages ==
    { <<>>, <<F_plain>>, <<F_spaced>>, <<F_ocr>>, <<F_llm>>, <<F_code>>, <<F_under>>,
      <<F_plain, F_spaced>>, <<F_llm, F_plain>>, <<F_template, F_short>>,
      <<F_plain, F_list>>, <<F_plain, F_code>> }

\* what get_google_reviews_for_competitor can return
GoogleReviews == {NONE, <<"4",".","5">>}

\* a banner image of a Trail Tire page with the OCR text read from it and the
\* LLM cleaner's answer for that text
Image(image_url, content, alt_text, ocr_text, cleaned_data) ==
    [ image_url |-> image_url, content |-> content, alt_text |-> alt_text,
      ocr_text |-> ocr_text, cleaned_data |-> cleaned_data ]

T_noalt == Image(<<"h","t","t","p","s",":","/","/","t","r","a","i","l","t","i","r","e",".","c","o","m","/","a",".","p","n","g">>, <<"a">>, <<>>,
                 <<"S","a","v","e"," ","$","5","0"," ","o","n"," ","w","i","n","t","e","r"," ","t","i","r","e","s">>, NoDict)
T_alt == Image(<<"h","t","t","p","s",":","/","/","t","r","a","i","l","t","i","r","e",".","c","o","m","/","b",".","p","n","g">>, <<"b">>, <<"W","i","n","t","e","r"," ","t","i","r","e"," ","r","e","b","a","t","e">>,
               <<"S","A","V","E"," ","$","5","0"," ","o","n"," ","w","i","n","t","e","r"," "," ","t","i","r","e","s">>, NoDict)
T_llm == Image(<<"h","t","t","p","s",":","/","/","t","r","a","i","l","t","i","r","e",".","c","o","m","/","c",".","p","n","g">>, <<"c">>, <<"B","r","a","k","e"," ","s","p","e","c","i","a","l">>,
               <<"B","r","a","k","e"," ","s","e","r","v","i","c","e"," ","1","5","%"," ","o","f","f">>,
               [ service_name      |-> <<"B","r","a","k","e","s">>,
                 promo_description |-> <<"1","5","%"," ","o","f","f"," ","b","r","a","k","e"," ","s","e","r","v","i","c","e">>,
                 category          |-> <<"b","r","a","k","e","s">>,
                 offer_details     |-> <<"D","i","s","c","o","u","n","t",":"," ","1","5","%">> ])
T_short == Image(<<"h","t","t","p","s",":","/","/","t","r","a","i","l","t","i","r","e",".","c","o","m","/","d",".","p","n","g">>, <<"d">>, <<>>, <<"H","i">>, NoDict)
T_failed == Image(<<"h","t","t","p","s",":","/","/","t","r","a","i","l","t","i","r","e",".","c","o","m","/","e",".","p","n","g">>, NONE, <<>>, <<>>, NoDict)

TrailPages ==
    { <<>>, <<T_noalt>>, <<T_alt>>, <<T_llm>>, <<T_alt, T_noalt>>,
      <<T_llm, T_alt>>, <<T_llm, T_noalt>>, <<T_short, T_failed>>, <<T_alt, T_alt>> }

\* What get_ai_overview can return: None, or the overview text with the full
\* response.  The text taken from the response's "text" or "answer" entry is
\* whatever JSON value stands there; NonText is such a value that is no string.
NonText == <<"<list>">>
OverviewData(ai_overview, full_data) ==
    [ai_overview |-> ai_overview, full_data |-> full_data]

AIOverviews ==
    { NoDict,
      OverviewData(<<"S","a","v","e"," ","o","n"," ","o","i","l"," ","c","h","a","n","g","e","."," ","F","r","e","e"," ","t","i","r","e"," ","r","o","t","a","t","i","o","n">>,
                   [knowledge_graph |-> [title |-> <<"A","u","t","o"," ","S","h","o","p">>, rating |-> <<"4",".","2">>]]),
      OverviewData(<<"T","r","u","s","t","e","d"," ","l","o","c","a","l"," ","s","h","o","p">>, <<>>),
      OverviewData(NonText, <<>>) }

\* ai_overview_text.startswith(...) on a value that is no string raises
\* AttributeError out of extract_promo_from_ai_overview
ai_overview_raises(competitor, overview_data) ==
    /\ Truthy(Get(competitor, "name", <<>>))
    /\ DictTruthy(overview_data)
    /\ overview_data.ai_overview = NonText

(***************************************************************************)
(* One competitor's runs: scrape_fountain / scrape_trail / the Mr. Lube     *)
(* entry, each through unified_extraction_flow, and the store file         *)
(***************************************************************************)
VARIABLES
    run_competitor,   \* the competitor whose runs are followed
    output_file,      \* its persisted store file
    pc,               \* where the current run stands
    primary,          \* how the primary extractor ended in this run
    firecrawl_promos, \* the list the primary extractor returned
    ai_calls,         \* calls of extract_promo_from_ai_overview in this run
    ai_overview_promo,\* what the last of those calls returned
    result,           \* the list unified_extraction_flow returned
    run_pages,        \* what the fetches of the primary extractor gave in this run
    dedup_scraper,    \* the scraper whose deduplication pass is followed
    dedup_input,      \* the records the pass is given
    dedup_passes,     \* what each application of the pass returned
    fetch_scraper,    \* the scraper whose fetch_with_fallback is followed
    fetch_url,        \* the kind of URL it is asked for
    api_keys,         \* the providers whose API key is configured
    responds,         \* what each provider answers when it is asked
    fetch_pc,         \* where the fetch stands
    tried,            \* the providers asked so far, in order
    firecrawl_result, \* what fetch_with_firecrawl returned
    fetched,          \* what fetch_with_fallback returned
    links_left,       \* the promo links after the one being fetched
    url_log,          \* how the loop dealt with each promo link so far
    ads_competitor,   \* the competitor whose Google Ads are extracted
    serpapi_ads,      \* what get_google_ads returned for it
    final_ads,        \* what extract_ads_for_competitor returned
    ads_pc,           \* where the extraction stands
    discount_text,    \* the text a discount value is extracted from
    discount_values,  \* the value each extractor gave for it
    promotions_dir,   \* the store files of PROMOTIONS_DIR, by file name
    sweep_left,       \* the entries of the scraper table still to be run
    sites,            \* what each competitor's site and SerpAPI answer in this sweep
    results,          \* the results run_all_scrapers has collected
    sweep_log         \* what each run read, got from its primary extractor and called

flow_vars == <<run_competitor, output_file, pc, primary, firecrawl_promos, ai_calls,
               ai_overview_promo, result, run_pages>>
dedup_vars == <<dedup_scraper, dedup_input, dedup_passes>>
fetch_vars == <<fetch_scraper, fetch_url, api_keys, responds, fetch_pc, tried,
                firecrawl_result, fetched, links_left, url_log>>
ads_vars == <<ads_competitor, serpapi_ads, final_ads, ads_pc>>
discount_vars == <<discount_text, discount_values>>
sweep_vars == <<promotions_dir, sweep_left, sites, results, sweep_log>>
vars == <<flow_vars, dedup_vars, fetch_vars, ads_vars, discount_vars, sweep_vars>>

\* no sweep over the scraper table is followed
NoSweep ==
    /\ promotions_dir = <<>>
    /\ sweep_left = <<>>
    /\ sites = <<>>
    /\ results = <<>>
    /\ sweep_log = <<>>

\* no extraction of a discount value is followed
NoDiscount ==
    /\ discount_text = <<>>
    /\ discount_values = <<>>

\* no extraction of Google Ads is followed
NoAds ==
    /\ ads_competitor = NoDict
    /\ serpapi_ads = NoDict
    /\ final_ads = <<>>
    /\ ads_pc = "none"

\* no deduplication pass and no fetch is followed
NoDedup ==
    /\ dedup_scraper = "none"
    /\ dedup_input = <<>>
    /\ dedup_passes = <<>>
NoFetch ==
    /\ fetch_scraper = "none"
    /\ fetch_url = "none"
    /\ api_keys = {}
    /\ responds = <<>>
    /\ fetch_pc = "idle"
    /\ tried = <<>>
    /\ firecrawl_result = NoDict
    /\ fetched = NoDict
    /\ links_left = 0
    /\ url_log = <<>>
\* no run of a competitor is followed
NoRun ==
    /\ run_competitor = NoDict
    /\ output_file = AbsentFile
    /\ pc = "none"
    /\ primary = "not called"
    /\ firecrawl_promos = <<>>
    /\ ai_calls = 0
    /\ ai_overview_promo = NoDict
    /\ result = <<>>
    /\ run_pages = <<>>

Init ==
    /\ run_competitor \in Competitors
    /\ output_file \in {AbsentFile, UnreadableFile}
    /\ pc = "idle"
    /\ primary = "not called"
    /\ firecrawl_promos = <<>>
    /\ ai_calls = 0
    /\ ai_overview_promo = NoDict
    /\ result = <<>>
    /\ run_pages = <<>>
    /\ NoDedup
    /\ NoFetch
    /\ NoAds
    /\ NoDiscount
    /\ NoSweep

\* the entry of unified_extraction_flow and the call of the primary extractor
\* inside its try block
BeginRun(next_pc, how, found, pages) ==
    /\ pc' = next_pc
    /\ run_pages' = pages
    /\ primary' = how
    /\ firecrawl_promos' = found
    /\ ai_calls' = 0
    /\ ai_overview_promo' = NoDict
    /\ result' = <<>>
    /\ UNCHANGED <<run_competitor, output_file, dedup_vars, fetch_vars, ads_vars, discount_vars, sweep_vars>>

\* scrape_fountain up to the return of process_fountain_promotions
ExtractFountain ==
    /\ pc = "idle"
    /\ run_competitor = FountainTire
    /\ \E page \in {FetchNone} \cup {Page(s) : s \in FountainPages},
          google_reviews \in GoogleReviews :
          IF fountain_raises(<<page>>)
          THEN BeginRun("handler", "raised", <<>>, <<page>>)
          ELSE BeginRun("extracted", "returned",
                        process_fountain_promotions(run_competitor, <<page>>,
                                                    google_reviews, output_file),
                        <<page>>)

\* scrape_trail up to the return of process_trail_promotions
ExtractTrail ==
    /\ pc = "idle"
    /\ run_competitor = TrailTire
    /\ \E page \in {FetchNone} \cup {Page(s) : s \in TrailPages} :
          IF process_raises(<<page>>)
          THEN BeginRun("handler", "raised", <<>>, <<page>>)
          ELSE BeginRun("extracted", "returned",
                        process_trail_promotions(run_competitor, <<page>>, output_file),
                        <<page>>)

\* process_mrlube_promotions of mrlube_scraper.py
process_mrlube_promotions(competitor) == <<>>

\* scrape_mrlube up to the branch of unified_extraction_flow: for Mr. Lube
\* the primary extractor is skipped, else process_mrlube_promotions is called
BypassPrimary ==
    /\ pc = "idle"
    /\ run_competitor = MrLube
    /\ IF is_mr_lube(run_competitor)
       THEN BeginRun("bypass", "not called", <<>>, <<>>)
       ELSE BeginRun("extracted", "returned", process_mrlube_promotions(run_competitor),
                     <<>>)

\* has_valid_promotions(promos) and, when it fails, the diagnostic
\* check_firecrawl_for_promo_section, whose answer is only logged
Validate ==
    /\ pc = "extracted"
    /\ IF has_valid_promotions(firecrawl_promos)
       THEN pc' = "returned" /\ result' = firecrawl_promos
       ELSE pc' = "fallback" /\ result' = result
    /\ UNCHANGED <<run_competitor, run_pages, output_file, primary, firecrawl_promos, ai_calls,
                   ai_overview_promo, dedup_vars, fetch_vars, ads_vars, discount_vars, sweep_vars>>

\* one call of extract_promo_from_ai_overview: it raises (to raised_pc), or
\* returns a record (the flow returns [record]) or None (the flow returns
\* if_none)
CallSecondary(raised_pc, if_none) ==
    \E overview_data \in AIOverviews :
       /\ ai_calls' = ai_calls + 1
       /\ IF ai_overview_raises(run_competitor, overview_data)
          THEN /\ pc' = raised_pc
               /\ UNCHANGED <<ai_overview_promo, result>>
          ELSE /\ pc' = "returned"
               /\ ai_overview_promo' =
                     extract_promo_from_ai_overview(run_competitor, overview_data)
               /\ result' = IF IsDict(ai_overview_promo') THEN <<ai_overview_promo'>>
                            ELSE if_none
       /\ UNCHANGED <<run_competitor, run_pages, output_file, primary, firecrawl_promos,
                      dedup_vars, fetch_vars, ads_vars, discount_vars, sweep_vars>>

\* the fallback inside the try block; an exception lands in the except block
Fallback == pc = "fallback" /\ CallSecondary("handler", firecrawl_promos)

\* the except block of unified_extraction_flow; an exception leaves the flow
Handler == pc = "handler" /\ CallSecondary("failed", <<>>)

\* the Mr. Lube branch, which is outside the try block
Bypass == pc = "bypass" /\ CallSecondary("failed", <<>>)

\* the write with the records of the run added to those the file held
SaveAppending ==
    /\ pc = "returned"
    /\ output_file' =
          [ state      |-> "ok",
            competitor |-> Get(run_competitor, "name", NONE),
            promotions |-> (IF output_file.state = "ok" THEN output_file.promotions
                            ELSE <<>>) \o
                           [i \in 1..Len(result) |-> format_for_google_sheets(result[i])],
            count      |-> Len(result) ]
    /\ pc' = "idle"
    /\ UNCHANGED <<run_competitor, run_pages, primary, firecrawl_promos, ai_calls,
                   ai_overview_promo, result, dedup_vars, fetch_vars, ads_vars, discount_vars, sweep_vars>>

\* scrape_X after the flow returned: format the records and write the store
Save ==
    /\ pc = "returned"
    /\ output_file' =
          [ state      |-> "ok",
            competitor |-> Get(run_competitor, "name", NONE),
            promotions |-> [i \in 1..Len(result) |-> format_for_google_sheets(result[i])],
            count      |-> Len(result) ]
    /\ pc' = "idle"
    /\ UNCHANGED <<run_competitor, run_pages, primary, firecrawl_promos, ai_calls, ai_overview_promo,
                   result, dedup_vars, fetch_vars, ads_vars, discount_vars, sweep_vars>>

\* output_file.write_text(...) raises OSError: the file was opened for
\* writing, which empties it, and the document was not written to its end
SaveFails ==
    /\ pc = "returned"
    /\ output_file' = UnreadableFile
    /\ pc' = "write failed"
    /\ UNCHANGED <<run_competitor, run_pages, primary, firecrawl_promos, ai_calls, ai_overview_promo,
                   result, dedup_vars, fetch_vars, ads_vars, discount_vars, sweep_vars>>

\* scrape_X's except block: the error result is returned, the file is left
\* as it is
Fail ==
    /\ pc \in {"failed", "write failed"}
    /\ pc' = "idle"
    /\ UNCHANGED <<run_competitor, run_pages, output_file, primary, firecrawl_promos, ai_calls,
                   ai_overview_promo, result, dedup_vars, fetch_vars, ads_vars, discount_vars, sweep_vars>>

Next ==
    \/ ExtractFountain
    \/ ExtractTrail
    \/ BypassPrimary
    \/ Validate
    \/ Fallback
    \/ Handler
    \/ Bypass
    \/ Save
    \/ SaveFails
    \/ Fail

Spec == Init /\ [][Next]_vars


(***************************************************************************)
(* The deduplication pass of one scraper, applied to a list of records     *)
(* and again to what it returned                                           *)
(***************************************************************************)
MaxPromos == 2
MaxPasses == 2

Midas ==
    [ name |-> <<"M","i","d","a","s">>, domain |-> <<"m","i","d","a","s",".","c","o","m">>, address |-> <<"E","d","m","o","n","t","o","n",","," ","A","B">> ]
KalTire ==
    [ name |-> <<"K","a","l"," ","T","i","r","e">>, domain |-> <<"k","a","l","t","i","r","e",".","c","o","m">>, address |-> <<"E","d","m","o","n","t","o","n",","," ","A","B">> ]
GoodNewsAuto ==
    [ name |-> <<"G","o","o","d"," ","N","e","w","s"," ","A","u","t","o">>, domain |-> <<"g","o","o","d","n","e","w","s","a","u","t","o",".","c","a">>,
      address |-> <<"E","d","m","o","n","t","o","n",","," ","A","B">> ]
JiffyLube ==
    [ name |-> <<"J","i","f","f","y"," ","L","u","b","e">>, domain |-> <<"j","i","f","f","y","l","u","b","e",".","c","a">>, address |-> <<"E","d","m","o","n","t","o","n",","," ","A","B">> ]

Scrapers == {"fountain", "midas", "kal", "goodnews", "jiffy"}

\* the passes: those of the scrapers and the one of sheets_merger.py
Passes == Scrapers \cup {"merger"}
CompetitorOf(scraper) ==
    CASE scraper = "fountain" -> FountainTire
      [] scraper = "midas"    -> Midas
      [] scraper = "kal"      -> KalTire
      [] scraper = "goodnews" -> GoodNewsAuto
      [] scraper = "jiffy"    -> JiffyLube

\* what one candidate of a page yields: the arguments of build_standard_promo
Candidate(page, service_name, promo_description, offer_details, ad_title, ad_text) ==
    [ page |-> page, service_name |-> service_name,
      promo_description |-> promo_description, offer_details |-> offer_details,
      ad_title |-> ad_title, ad_text |-> ad_text ]

Candidates ==
    { Candidate(<<"/","o","f","f","e","r","s">>, <<"o","i","l"," ","c","h","a","n","g","e">>, <<"S","a","v","e"," ","$","1","0"," ","o","n"," ","s","y","n","t","h","e","t","i","c"," ","o","i","l"," ","c","h","a","n","g","e">>,
                <<"D","i","s","c","o","u","n","t",":"," ","$","1","0">>, <<"o","i","l"," ","c","h","a","n","g","e">>, <<"S","a","v","e"," ","$","1","0"," ","o","n"," ","s","y","n","t","h","e","t","i","c"," ","o","i","l"," ","c","h","a","n","g","e">>),
      Candidate(<<"/","o","f","f","e","r","s">>, <<"o","i","l"," ","c","h","a","n","g","e">>, <<"S","a","v","e"," ","$","2","0"," ","o","n"," ","s","y","n","t","h","e","t","i","c"," ","o","i","l"," ","c","h","a","n","g","e">>,
                <<"D","i","s","c","o","u","n","t",":"," ","$","2","0">>, <<"o","i","l"," ","c","h","a","n","g","e">>, <<"S","a","v","e"," ","$","2","0"," ","o","n"," ","s","y","n","t","h","e","t","i","c"," ","o","i","l"," ","c","h","a","n","g","e">>),
      Candidate(<<"/","o","f","f","e","r","s">>, <<"o","i","l"," ","c","h","a","n","g","e">>, <<"S","a","v","e"," ","$","2","0"," ","o","n"," ","s","y","n","t","h","e","t","i","c"," ","o","i","l"," ","c","h","a","n","g","e">>,
                <<"D","i","s","c","o","u","n","t",":"," ","$","2","0">>, <<"s","y","n","t","h","e","t","i","c"," ","o","i","l"," ","o","f","f","e","r">>, <<"S","a","v","e"," ","$","2","0"," ","t","o","d","a","y">>),
      Candidate(<<"/","o","f","f","e","r","s">>, <<"M","i","c","h","e","l","i","n"," ","T","i","r","e","s">>, <<"M","i","c","h","e","l","i","n"," ","t","i","r","e"," ","r","e","b","a","t","e">>,
                <<"D","i","s","c","o","u","n","t",":"," ","$","7","0">>, <<"M","i","c","h","e","l","i","n"," ","T","i","r","e","s">>, <<"M","i","c","h","e","l","i","n"," ","t","i","r","e"," ","r","e","b","a","t","e">>),
      Candidate(<<"/","b","r","a","k","e","s">>, <<"B","r","a","k","e","s">>, <<"B","r","a","k","e"," ","s","e","r","v","i","c","e"," ","s","p","e","c","i","a","l">>,
                <<"F","r","e","e"," ","i","n","s","p","e","c","t","i","o","n">>, <<"B","r","a","k","e","s">>, <<"B","r","a","k","e"," ","s","e","r","v","i","c","e"," ","s","p","e","c","i","a","l">>),
      Candidate(<<"/","o","f","f","e","r","s">>, <<"B","r","i","d","g","e","s","t","o","n","e"," ","T","i","r","e","s">>, <<"B","r","i","d","g","e","s","t","o","n","e"," ","t","i","r","e"," ","r","e","b","a","t","e">>,
                <<"D","i","s","c","o","u","n","t",":"," ","$","7","0">>, <<"B","r","i","d","g","e","s","t","o","n","e"," ","T","i","r","e","s">>, <<"B","r","i","d","g","e","s","t","o","n","e"," ","t","i","r","e"," ","r","e","b","a","t","e">>),
      Candidate(<<"/","o","f","f","e","r","s">>, <<"T","o","y","o"," ","S","e","a","s","o","n","a","l"," ","T","i","r","e"," ","R","e","b","a","t","e"," ","O","f","f","e","r">>, <<"T","o","y","o"," ","t","i","r","e"," ","r","e","b","a","t","e">>,
                <<"D","i","s","c","o","u","n","t",":"," ","$","5","0">>, <<"T","o","y","o"," ","S","e","a","s","o","n","a","l"," ","T","i","r","e"," ","R","e","b","a","t","e"," ","O","f","f","e","r">>, <<"T","o","y","o"," ","t","i","r","e"," ","r","e","b","a","t","e">>),
      Candidate(<<"/","o","f","f","e","r","s">>, <<"S","e","a","s","o","n","a","l"," ","T","i","r","e"," ","R","e","b","a","t","e"," ","O","f","f","e","r">>, <<"S","e","a","s","o","n","a","l"," ","t","i","r","e"," ","r","e","b","a","t","e">>,
                <<"D","i","s","c","o","u","n","t",":"," ","$","5","0">>, <<"S","e","a","s","o","n","a","l"," ","T","i","r","e"," ","R","e","b","a","t","e"," ","O","f","f","e","r">>, <<"S","e","a","s","o","n","a","l"," ","t","i","r","e"," ","r","e","b","a","t","e">>),
      Candidate(<<"/","b","r","a","k","e","s">>, <<"B","r","a","k","e","s">>, <<"B","r","a","k","e"," ","s","e","r","v","i","c","e"," ","s","p","e","c","i","a","l">>,
                <<"F","r","e","e"," ","i","n","s","p","e","c","t","i","o","n"," ","w","i","t","h"," ","a","n","y"," ","b","r","a","k","e"," ","s","e","r","v","i","c","e">>, <<"B","r","a","k","e","s">>, <<"B","r","a","k","e"," ","s","e","r","v","i","c","e"," ","s","p","e","c","i","a","l">>) }

\* the record the scraper builds for a candidate on a first run
RecordOf(scraper, c) ==
    build_standard_promo(CompetitorOf(scraper),
                         <<"h","t","t","p","s",":","/","/">> \o CompetitorOf(scraper).domain \o c.page,
                         c.service_name, c.promo_description, <<"S","e","r","v","i","c","e">>,
                         c.offer_details, c.ad_title, c.ad_text, NONE, NoDict)

RecordLists(scraper) ==
    UNION {[1..n -> {RecordOf(scraper, c) : c \in Candidates}] : n \in 0..MaxPromos}

\* the records load_all_promotions reads from the files of two competitors,
\* which hold the tire offers
TireOffers == {c \in Candidates : Contains(Lower(c.service_name), <<"t","i","r","e">>)}
MergedLists ==
    UNION {[1..n -> {RecordOf(scraper, c) : scraper \in {"fountain", "midas"},
                                            c \in TireOffers}] : n \in 0..MaxPromos}

DedupInit ==
    /\ dedup_scraper \in Passes
    /\ dedup_input \in (IF dedup_scraper = "merger" THEN MergedLists
                        ELSE RecordLists(dedup_scraper))
    /\ dedup_passes = <<>>
    /\ NoRun
    /\ NoFetch
    /\ NoAds
    /\ NoDiscount
    /\ NoSweep

\* the list the next application of the pass is given
pass_input ==
    IF dedup_passes = <<>> THEN dedup_input ELSE dedup_passes[Len(dedup_passes)]

ApplyPass(scraper, deduplicated) ==
    /\ dedup_scraper = scraper
    /\ Len(dedup_passes) < MaxPasses
    /\ dedup_passes' = Append(dedup_passes, deduplicated)
    /\ UNCHANGED <<dedup_scraper, dedup_input, flow_vars, fetch_vars, ads_vars, discount_vars, sweep_vars>>

FountainDedup == ApplyPass("fountain", fountain_deduplicate(pass_input))
MidasDedup == ApplyPass("midas", midas_deduplicate(pass_input))
KalDedup == ApplyPass("kal", kal_deduplicate(pass_input))
GoodnewsDedup == ApplyPass("goodnews", goodnews_deduplicate(pass_input))
JiffyDedup == ApplyPass("jiffy", jiffy_deduplicate(pass_input))
MergerDedup == ApplyPass("merger", deduplicate_promotions(pass_input))

DedupNext ==
    \/ FountainDedup
    \/ MidasDedup
    \/ KalDedup
    \/ GoodnewsDedup
    \/ JiffyDedup
    \/ MergerDedup

DedupSpec == DedupInit /\ [][DedupNext]_vars

(***************************************************************************)
(* One fetch of a URL: fetch_with_fallback of fountain_scraper.py and of   *)
(* midas_scraper.py over fetch_with_firecrawl of firecrawl_client.py       *)
(***************************************************************************)
\* the calls a fetch can make, and the configured API keys
Providers == {"firecrawl", "firecrawl_sdk", "httpx", "zenrows", "scraperapi"}
ApiKeys == {"FIRECRAWL_API_KEY", "ZENROWS_API_KEY", "SCRAPERAPI_KEY"}

\* what a provider answers: a 2xx response with the page or with an empty
\* body, a non-2xx response (raise_for_status raises), or a timeout
Outcomes == {"html", "empty", "http_error", "timeout"}

\* the page as each provider renders it
html_of ==
    [ firecrawl     |-> <<"<","p",">","f","i","r","e","c","r","a","w","l","<","/","p",">">>,
      firecrawl_sdk |-> <<"<","p",">","s","d","k","<","/","p",">">>,
      httpx         |-> <<"<","p",">","h","t","t","p","x","<","/","p",">">>,
      zenrows       |-> <<"<","p",">","z","e","n","r","o","w","s","<","/","p",">">>,
      scraperapi    |-> <<"<","p",">","s","c","r","a","p","e","r","a","p","i","<","/","p",">">> ]

\* the call raises / response.text of a call that does not
raises(provider) == responds[provider] \in {"http_error", "timeout"}
response_text(provider) ==
    IF responds[provider] = "html" THEN html_of[provider] ELSE <<>>

\* the promo links of the competitor
MaxLinks == 2

\* the kinds of URL a scraper is given
UrlKinds(scraper) == IF scraper = "midas" THEN {"promotions", "rebates"} ELSE {"promotions"}

\* the dict fetch_with_firecrawl returns (the pages carry no <img>)
FirecrawlResult(html, error) == [html |-> html, images |-> <<>>, error |-> error]

\* what fetch_with_fallback returns: a dict for Fountain Tire, the text for Midas
Returned(html) ==
    IF fetch_scraper = "fountain" THEN [html |-> html, images |-> <<>>] ELSE html

FetchInit ==
    /\ fetch_scraper \in {"fountain", "midas"}
    /\ fetch_url \in UrlKinds(fetch_scraper)
    /\ api_keys \in SUBSET ApiKeys
    /\ responds \in [Providers -> Outcomes]
    /\ fetch_pc = "call"
    /\ tried = <<>>
    /\ firecrawl_result = NoDict
    /\ fetched = NoDict
    /\ links_left = MaxLinks - 1
    /\ url_log = <<>>
    /\ NoRun
    /\ NoDedup
    /\ NoAds
    /\ NoDiscount
    /\ NoSweep

\* a step of the fetch: the provider asked (or none), the next position and
\* what the step stores
FetchStep(asked, next_pc, new_firecrawl_result, new_fetched) ==
    /\ tried' = tried \o asked
    /\ fetch_pc' = next_pc
    /\ firecrawl_result' = new_firecrawl_result
    /\ fetched' = new_fetched
    /\ UNCHANGED <<fetch_scraper, fetch_url, api_keys, responds, links_left, url_log,
                   flow_vars, dedup_vars, ads_vars, discount_vars, sweep_vars>>

\* the entry of fetch_with_fallback; for a Midas rebates URL, ZenRows with JS
\* rendering first
RebatesZenRows ==
    /\ fetch_pc = "call"
    /\ IF fetch_scraper = "midas" /\ fetch_url = "rebates" /\ "ZENROWS_API_KEY" \in api_keys
       THEN IF raises("zenrows")
            THEN FetchStep(<<"zenrows">>, "firecrawl", firecrawl_result, fetched)
            ELSE FetchStep(<<"zenrows">>, "returned", firecrawl_result,
                           Returned(response_text("zenrows")))
       ELSE FetchStep(<<>>, "firecrawl", firecrawl_result, fetched)

\* fetch_with_firecrawl up to its first return or to the SDK fallback
FirecrawlApi ==
    /\ fetch_pc = "firecrawl"
    /\ IF "FIRECRAWL_API_KEY" \notin api_keys
       THEN FetchStep(<<>>, "check",
                      FirecrawlResult(<<>>, <<"F","i","r","e","c","r","a","w","l"," ","A","P","I"," ","k","e","y"," ","n","o","t"," ","s","e","t">>), fetched)
       ELSE IF responds.firecrawl = "timeout"
       THEN FetchStep(<<"firecrawl">>, "check",
                      FirecrawlResult(<<>>, <<"F","i","r","e","c","r","a","w","l"," ","t","i","m","e","o","u","t"," ","a","f","t","e","r"," ","9","0","s">>), fetched)
       ELSE IF responds.firecrawl = "http_error"
       THEN FetchStep(<<"firecrawl">>, "sdk", firecrawl_result, fetched)
       ELSE FetchStep(<<"firecrawl">>, "check",
                      FirecrawlResult(response_text("firecrawl"), NONE), fetched)

\* _fetch_with_firecrawl_sdk inside the except block
FirecrawlSdk ==
    /\ fetch_pc = "sdk"
    /\ IF raises("firecrawl_sdk")
       THEN FetchStep(<<"firecrawl_sdk">>, "httpx", firecrawl_result, fetched)
       ELSE FetchStep(<<"firecrawl_sdk">>, "check",
                      FirecrawlResult(response_text("firecrawl_sdk"), NONE), fetched)

\* "Final fallback to httpx"
Httpx ==
    /\ fetch_pc = "httpx"
    /\ IF raises("httpx")
       THEN FetchStep(<<"httpx">>, "client_zenrows", firecrawl_result, fetched)
       ELSE FetchStep(<<"httpx">>, "check",
                      FirecrawlResult(response_text("httpx"), NONE), fetched)

\* "Try ZenRows as second fallback": without the key the function ends
\* without a return statement and gives None
ClientZenRows ==
    /\ fetch_pc = "client_zenrows"
    /\ IF "ZENROWS_API_KEY" \notin api_keys
       THEN FetchStep(<<>>, "check", NoDict, fetched)
       ELSE IF raises("zenrows")
       THEN FetchStep(<<"zenrows">>, "check",
                      FirecrawlResult(<<>>, <<"A","l","l"," ","m","e","t","h","o","d","s"," ","f","a","i","l","e","d",":"," ","F","i","r","e","c","r","a","w","l"," ","e","r","r","o","r",","," ","h","t","t","p","x"," ","e","r","r","o","r",","," ","Z","e","n","R","o","w","s"," ","e","r","r","o","r">>),
                      fetched)
       ELSE FetchStep(<<"zenrows">>, "check",
                      FirecrawlResult(response_text("zenrows"), NONE), fetched)

\* firecrawl_result.get("html") and not firecrawl_result.get("error"):
\* AttributeError on None
CheckFirecrawl ==
    /\ fetch_pc = "check"
    /\ IF ~IsDict(firecrawl_result)
       THEN FetchStep(<<>>, "raised", firecrawl_result, fetched)
       ELSE IF Truthy(firecrawl_result.html) /\ ~Truthy(firecrawl_result.error)
       THEN FetchStep(<<>>, "returned", firecrawl_result,
                      Returned(firecrawl_result.html))
       ELSE FetchStep(<<>>, "zenrows", firecrawl_result, fetched)

\* "Fallback to ZenRows"
ZenRows ==
    /\ fetch_pc = "zenrows"
    /\ IF "ZENROWS_API_KEY" \notin api_keys
       THEN FetchStep(<<>>, "scraperapi", firecrawl_result, fetched)
       ELSE IF raises("zenrows")
       THEN FetchStep(<<"zenrows">>, "scraperapi", firecrawl_result, fetched)
       ELSE FetchStep(<<"zenrows">>, "returned", firecrawl_result,
                      Returned(response_text("zenrows")))

\* "Fallback to ScraperAPI" and the return after "All fetch methods failed"
ScraperApi ==
    /\ fetch_pc = "scraperapi"
    /\ IF "SCRAPERAPI_KEY" \notin api_keys
       THEN FetchStep(<<>>, "returned", firecrawl_result, Returned(<<>>))
       ELSE IF raises("scraperapi")
       THEN FetchStep(<<"scraperapi">>, "returned", firecrawl_result, Returned(<<>>))
       ELSE FetchStep(<<"scraperapi">>, "returned", firecrawl_result,
                      Returned(response_text("scraperapi")))

\* result.get("html", "") of process_page_text_only and process_page_with_ocr,
\* html of process_midas_promotions
fetched_html == IF fetch_scraper = "fountain" THEN fetched.html ELSE fetched

\* "for promo_url in promo_links" after fetch_with_fallback returned: without
\* HTML the link is skipped, with HTML its page is processed, and the next
\* link is fetched; the providers answer as before or all with the page
NextUrl ==
    /\ fetch_pc = "returned"
    /\ links_left > 0
    /\ url_log' = Append(url_log, IF fetched_html = <<>> THEN "skipped" ELSE "processed")
    /\ links_left' = links_left - 1
    /\ fetch_url' \in UrlKinds(fetch_scraper)
    /\ responds' \in {responds, [provider \in Providers |-> "html"]}
    /\ fetch_pc' = "call"
    /\ tried' = <<>>
    /\ firecrawl_result' = NoDict
    /\ fetched' = NoDict
    /\ UNCHANGED <<fetch_scraper, api_keys, flow_vars, dedup_vars, ads_vars, discount_vars, sweep_vars>>

FetchNext ==
    \/ RebatesZenRows
    \/ FirecrawlApi
    \/ FirecrawlSdk
    \/ Httpx
    \/ ClientZenRows
    \/ CheckFirecrawl
    \/ ZenRows
    \/ ScraperApi
    \/ NextUrl

FetchSpec == FetchInit /\ [][FetchNext]_vars

(***************************************************************************)
(* The Google Ads of one competitor: extract_ads_for_competitor of         *)
(* ads_extractor.py, given what get_google_ads returned                    *)
(***************************************************************************)
MaxAds == 3
ads_limit == 2

Ad(title, description) == [title |-> title, description |-> description]
AdWithSnippet(title, snippet) == [title |-> title, snippet |-> snippet]

Ads ==
    { Ad(<<"A","u","t","o"," ","r","e","p","a","i","r"," ","s","h","o","p">>, <<"T","r","u","s","t","e","d"," ","m","e","c","h","a","n","i","c","s"," ","i","n"," ","E","d","m","o","n","t","o","n">>),
      Ad(<<"O","i","l"," ","c","h","a","n","g","e">>, <<"$","2","0"," ","o","f","f"," ","s","y","n","t","h","e","t","i","c"," ","o","i","l">>),
      Ad(<<"B","r","a","k","e"," ","s","e","r","v","i","c","e">>, <<"S","a","v","e"," ","$","5","0"," ","o","n"," ","b","r","a","k","e","s">>),
      Ad(<<"W","i","n","t","e","r"," ","t","i","r","e","s">>, <<"S","a","v","e"," ","$","5","0"," ","o","n"," ","t","i","r","e","s",","," ","l","i","m","i","t","e","d"," ","o","f","f","e","r">>),
      AdWithSnippet(<<"T","i","r","e"," ","r","o","t","a","t","i","o","n">>, <<"F","r","e","e"," ","r","o","t","a","t","i","o","n",","," ","u","s","e"," ","c","o","d","e"," ","S","A","V","E","2","0">>),
      Ad(<<"A","l","i","g","n","m","e","n","t">>, <<"F","r","e","e"," ","c","h","e","c","k"," ","o","r"," ","1","5","%"," ","o","f","f",","," ","$","5"," ","s","h","o","p"," ","f","e","e">>) }

\* get_google_ads returns None, or a list of ads
AdAnswers ==
    {NoDict} \cup {JsonList(ads) : ads \in UNION {[1..n -> Ads] : n \in 0..MaxAds}}

AdsInit ==
    /\ ads_competitor \in Competitors
    /\ serpapi_ads \in AdAnswers
    /\ final_ads = <<>>
    /\ ads_pc = "idle"
    /\ NoRun
    /\ NoDedup
    /\ NoFetch
    /\ NoDiscount
    /\ NoSweep

\* one iteration of the loop of extract_ads_for_all_competitors
ExtractAds ==
    /\ ads_pc = "idle"
    /\ final_ads' = extract_ads_for_competitor(ads_competitor, serpapi_ads, ads_limit)
    /\ ads_pc' = "returned"
    /\ UNCHANGED <<ads_competitor, serpapi_ads, flow_vars, dedup_vars, fetch_vars, discount_vars, sweep_vars>>

AdsNext == ExtractAds

AdsSpec == AdsInit /\ [][AdsNext]_vars

(***************************************************************************)
(* The discount value of one text, as extract_discount_value of            *)
(* fountain_scraper.py, process_speedy_promotions and extract_discount_    *)
(* value of ads_extractor.py extract it                                    *)
(***************************************************************************)
MaxTokens == 2

Tokens == { <<"$","2","0">>, <<"$","5",".","5","0">>, <<"1","0","%">>, <<"2","5","%">>, <<"f","r","e","e">>, <<"S","a","v","e">>, <<"%"," ","o","f","f">> }

\* the texts of at most MaxTokens tokens, with a blank between two tokens
Texts == {Join(<<" ">>, tokens) : tokens \in UNION {[1..n -> Tokens] : n \in 0..MaxTokens}}

Extractors == {"fountain", "speedy", "ads"}

DiscountInit ==
    /\ discount_text \in Texts
    /\ discount_values = <<>>
    /\ NoRun
    /\ NoDedup
    /\ NoFetch
    /\ NoAds
    /\ NoSweep

Extracted(extractor, discount_value) ==
    /\ extractor \notin DOMAIN discount_values
    /\ discount_values' = [e \in DOMAIN discount_values \cup {extractor} |->
                              IF e = extractor THEN discount_value ELSE discount_values[e]]
    /\ UNCHANGED <<discount_text, flow_vars, dedup_vars, fetch_vars, ads_vars, sweep_vars>>

FountainDiscount == Extracted("fountain", extract_discount_value(discount_text))
SpeedyDiscount == Extracted("speedy", speedy_extracted_discount(discount_text))
AdsDiscount == Extracted("ads", ads_extract_discount_value(discount_text))

DiscountNext ==
    \/ FountainDiscount
    \/ SpeedyDiscount
    \/ AdsDiscount

DiscountSpec == DiscountInit /\ [][DiscountNext]_vars

(***************************************************************************)
(* run_all_scrapers of run_all_competitors.py: the scrapers of the table   *)
(* run one after the other, each on its own store file of PROMOTIONS_DIR   *)
(***************************************************************************)
MaxRuns == 3

\* text.replace(old, new) for a one-character old
ReplaceChar(text, old, new) ==
    SubSeq([i \in 1..Len(text) |-> IF text[i] = old THEN new ELSE text[i]], 1, Len(text))

\* one store file for every competitor
output_file_name_shared(competitor, default) == <<"p","r","o","m","o","t","i","o","n","s",".","j","s","o","n">>

\* f"{competitor.get('name', default).lower().replace(' ', '_')}.json"
output_file_name(competitor, default) ==
    ReplaceChar(Lower(Get(competitor, "name", default)), " ", "_") \o <<".","j","s","o","n">>

\* the same with .replace('.', '') of scrape_mrlube
mrlube_file_name(competitor) ==
    RemoveChars(ReplaceChar(Lower(Get(competitor, "name", <<"m","r","l","u","b","e">>)), " ", "_"), {"."})
        \o <<".","j","s","o","n">>

\* the entries of COMPETITORS_AND_SCRAPERS that are followed
Entry(name, scraper) == [name |-> name, scraper |-> scraper]
COMPETITORS_AND_SCRAPERS ==
    << Entry(<<"M","i","d","a","s">>, "midas"), Entry(<<"F","o","u","n","t","a","i","n"," ","T","i","r","e">>, "fountain"),
       Entry(<<"T","r","a","i","l"," ","T","i","r","e"," ","A","u","t","o"," ","C","e","n","t","r","e","s">>, "trail"), Entry(<<"M","r","."," ","L","u","b","e">>, "mrlube") >>

\* competitor_list.json
MidasShop ==
    [ name        |-> Midas.name, domain |-> Midas.domain, address |-> Midas.address,
      promo_links |-> << <<"h","t","t","p","s",":","/","/","w","w","w",".","m","i","d","a","s",".","c","o","m","/","p","r","o","m","o","t","i","o","n","s","/">> >> ]
competitor_list == <<MidasShop, FountainTire, TrailTire, MrLube>>

\* load_competitor of run_all_competitors.py
names_match(name_lower, comp_name) ==
    \/ Contains(comp_name, name_lower)
    \/ Contains(name_lower, comp_name)
    \/ Contains(RemoveChars(comp_name, {" "}), RemoveChars(name_lower, {" "}))
    \/ Contains(RemoveChars(name_lower, {" "}), RemoveChars(comp_name, {" "}))
matching(name) ==
    {i \in DOMAIN competitor_list :
        names_match(Strip(Lower(name)), Strip(Lower(Get(competitor_list[i], "name", <<>>))))}
load_competitor(name) ==
    IF matching(name) = {} THEN NoDict ELSE competitor_list[Kth(matching(name), 1)]

\* the name a scraper uses for a competitor without one
default_name(scraper) ==
    CASE scraper = "fountain" -> <<"f","o","u","n","t","a","i","n">>
      [] scraper = "trail"    -> <<"t","r","a","i","l">>
      [] scraper = "midas"    -> <<"m","i","d","a","s">>

\* the store file a scraper reads and writes
store_of(entry) ==
    IF entry.scraper = "mrlube" THEN mrlube_file_name(load_competitor(entry.name))
    ELSE output_file_name(load_competitor(entry.name), default_name(entry.scraper))

\* what the primary extractor or unified_extraction_flow gave: a list, or an
\* exception; with the calls of extract_promo_from_ai_overview made
Returns(promos, calls) == [raised |-> FALSE, promos |-> promos, ai_calls |-> calls]
Raises(calls) == [raised |-> TRUE, promos |-> <<>>, ai_calls |-> calls]

\* one call of extract_promo_from_ai_overview inside unified_extraction_flow
secondary(competitor, overview_data, calls, if_raised, if_none) ==
    IF ai_overview_raises(competitor, overview_data) THEN if_raised
    ELSE IF DictTruthy(extract_promo_from_ai_overview(competitor, overview_data))
    THEN Returns(<<extract_promo_from_ai_overview(competitor, overview_data)>>, calls)
    ELSE Returns(if_none, calls)

\* the except block of unified_extraction_flow, entered after calls calls
flow_handler(competitor, overview_data, calls) ==
    secondary(competitor, overview_data, calls + 1, Raises(calls + 1), <<>>)

\* unified_extraction_flow of extraction_flow.py, given how the call of the
\* primary extractor ends
unified_extraction_flow(competitor, firecrawl, overview_data) ==
    IF is_mr_lube(competitor)
    THEN secondary(competitor, overview_data, 1, Raises(1), <<>>)
    ELSE IF firecrawl.raised THEN flow_handler(competitor, overview_data, 0)
    ELSE IF has_valid_promotions(firecrawl.promos) THEN Returns(firecrawl.promos, 0)
    ELSE secondary(competitor, overview_data, 1,
                   flow_handler(competitor, overview_data, 1), firecrawl.promos)

\* a page of midas.com: the HTML fetch_with_fallback returned ("" when every
\* provider failed) and the blocks extract_promo_blocks finds in it
MidasPage(html, blocks) == [html |-> html, blocks |-> blocks]
\* the blocks the block loop of process_midas_promotions does not skip
midas_processed_blocks(page) ==
    IF page.html = <<>> THEN <<>>
    ELSE SelectSeq(page.blocks, LAMBDA block : Len(block.text) >= 50)

\* process_midas_promotions for pages that leave no block to process: the
\* loops end with all_promos empty and the deduplication pass is run on it
process_midas_promotions(competitor, pages, promotions_file) ==
    IF Get(competitor, "promo_links", <<>>) = <<>> THEN <<>>
    ELSE midas_deduplicate(<<>>)

\* what a site and SerpAPI answer during one sweep
Site(pages, google_reviews, overview_data) ==
    [pages |-> pages, google_reviews |-> google_reviews, overview_data |-> overview_data]
OverviewWith(first) ==
    CHOOSE o \in AIOverviews \ {NoDict} : o.ai_overview[1] = first
SitesOf(scraper) ==
    CASE scraper = "fountain" ->
            { Site(<<Page(<<F_plain>>)>>, NONE, NoDict),
              Site(<<Page(<<>>)>>, NONE, OverviewWith("S")) }
      [] scraper = "trail" ->
            { Site(<<Page(<<T_alt>>)>>, NONE, NoDict),
              Site(<<FetchNone>>, NONE, OverviewWith("S")) }
      [] scraper = "mrlube" ->
            { Site(<<>>, NONE, OverviewWith("S")) }
      [] scraper = "midas" ->
            { Site(<<MidasPage(<<"<","h","t","m","l",">">>, <<[text |-> <<"B","r","a","k","e"," ","s","p","e","c","i","a","l">>]>>)>>, NONE, OverviewWith("S")) }

\* the call of the primary extractor of a scraper
primary_of(scraper, competitor, site, promotions_file) ==
    CASE scraper = "fountain" ->
            IF fountain_raises(site.pages) THEN Raises(0)
            ELSE Returns(process_fountain_promotions(competitor, site.pages,
                                                     site.google_reviews, promotions_file), 0)
      [] scraper = "trail" ->
            IF process_raises(site.pages) THEN Raises(0)
            ELSE Returns(process_trail_promotions(competitor, site.pages, promotions_file), 0)
      [] scraper = "mrlube" -> Returns(<<>>, 0)
      [] scraper = "midas" ->
            Returns(process_midas_promotions(competitor, site.pages, promotions_file), 0)

\* the list of promotions a scraper's entry point gets: scrape_midas calls
\* process_midas_promotions itself, the others unified_extraction_flow
promos_of(scraper, competitor, firecrawl, overview_data) ==
    IF scraper = "midas" THEN firecrawl
    ELSE unified_extraction_flow(competitor, firecrawl, overview_data)

\* the document the entry point writes and returns; scrape_midas writes the
\* records as they are, the others after format_for_google_sheets
document_of(scraper, competitor, promos) ==
    [ state      |-> "ok",
      competitor |-> Get(competitor, "name", NONE),
      promotions |-> IF scraper = "midas" THEN promos
                     ELSE SubSeq([i \in 1..Len(promos) |-> format_for_google_sheets(promos[i])],
                                 1, Len(promos)),
      count      |-> Len(promos) ]
error_result(competitor) ==
    [ state |-> "error", competitor |-> Get(competitor, "name", NONE),
      promotions |-> <<>>, count |-> 0 ]

SweepEntries == {COMPETITORS_AND_SCRAPERS[i] : i \in DOMAIN COMPETITORS_AND_SCRAPERS}
StoreNames == {store_of(entry) : entry \in SweepEntries}

SweepInit ==
    /\ promotions_dir = [file_name \in StoreNames |-> AbsentFile]
    /\ sweep_left \in UNION {[1..n -> SweepEntries] : n \in 0..MaxRuns}
    /\ sites \in [fountain : SitesOf("fountain"), trail : SitesOf("trail"),
                   mrlube : SitesOf("mrlube"), midas : SitesOf("midas")]
    /\ \A i \in DOMAIN sites.midas.pages :
          midas_processed_blocks(sites.midas.pages[i]) = <<>>
    /\ results = <<>>
    /\ sweep_log = <<>>
    /\ NoRun
    /\ NoDedup
    /\ NoFetch
    /\ NoAds
    /\ NoDiscount

\* the end of a scraper's entry point: the document is written and returned,
\* or, after an exception, the error result is returned and the file is left
\* as it is.  The log keeps what the run read and called.
Finished(entry, competitor, promotions_file, firecrawl, flow) ==
    /\ promotions_dir' =
          IF flow.raised THEN promotions_dir
          ELSE [promotions_dir EXCEPT ![store_of(entry)] =
                   document_of(entry.scraper, competitor, flow.promos)]
    /\ results' = Append(results,
                         IF flow.raised THEN error_result(competitor)
                         ELSE document_of(entry.scraper, competitor, flow.promos))
    /\ sweep_log' = Append(sweep_log,
                           [ scraper |-> entry.scraper, store |-> store_of(entry),
                             read |-> promotions_file, firecrawl |-> firecrawl,
                             ai_calls |-> flow.ai_calls, written |-> ~flow.raised ])

Extracted_by(entry, competitor, promotions_file, firecrawl) ==
    Finished(entry, competitor, promotions_file, firecrawl,
             promos_of(entry.scraper, competitor, firecrawl,
                       sites[entry.scraper].overview_data))

\* one iteration of the loop of run_all_scrapers
Loaded(entry, competitor) ==
    IF competitor = NoDict
    THEN UNCHANGED <<promotions_dir, results, sweep_log>>
    ELSE Extracted_by(entry, competitor, promotions_dir[store_of(entry)],
                      primary_of(entry.scraper, competitor, sites[entry.scraper],
                                 promotions_dir[store_of(entry)]))

RunScraper(scraper) ==
    /\ sweep_left # <<>>
    /\ Head(sweep_left).scraper = scraper
    /\ sweep_left' = Tail(sweep_left)
    /\ Loaded(Head(sweep_left), load_competitor(Head(sweep_left).name))
    /\ UNCHANGED <<sites, flow_vars, dedup_vars, fetch_vars, ads_vars, discount_vars>>

ScrapeMidas == RunScraper("midas")
ScrapeFountain == RunScraper("fountain")
ScrapeTrail == RunScraper("trail")
ScrapeMrLube == RunScraper("mrlube")

SweepNext ==
    \/ ScrapeMidas
    \/ ScrapeFountain
    \/ ScrapeTrail
    \/ ScrapeMrLube

SweepSpec == SweepInit /\ [][SweepNext]_vars

(***************************************************************************)
(* Properties of the runs                                                  *)
(***************************************************************************)
string_fields == {"website", "page_url", "business_name", "service_name",
                  "promo_description", "category", "contact", "location",
                  "offer_details", "ad_title", "ad_text", "date_scraped"}

\* the records the run at hand is about to write, as scrape_X formats them
new_records == [i \in 1..Len(result) |-> format_for_google_sheets(result[i])]

\* a record without its change tag
Untagged(p) == [f \in DOMAIN p \ {"new_or_updated"} |-> p[f]]

\* the run at hand repeats the run that wrote the store: the store is there
\* and holds the very records the run produced, the tag aside
RepeatsStoredRun ==
    /\ pc = "returned"
    /\ output_file.state = "ok"
    /\ result # <<>>
    /\ Len(new_records) = Len(output_file.promotions)
    /\ \A i \in 1..Len(new_records) :
          Untagged(new_records[i]) = Untagged(output_file.promotions[i])

\* C1: a run repeated against the store the previous run wrote, whose
\* records are identical to the stored ones, tags every record SAME
C1_RepeatedRunTagsSame ==
    RepeatsStoredRun =>
       \A i \in 1..Len(new_records) : new_records[i].new_or_updated = "SAME"

\* C4: every record a run writes has every string field non-empty
C4_StringFieldsNonEmpty ==
    output_file.state = "ok" =>
       \A i \in 1..Len(output_file.promotions) :
          \A f \in string_fields : output_file.promotions[i][f] # <<>>

\* C5: when the primary extractor returned an empty list, the flow ends
\* having called the secondary extractor exactly once, and returns the
\* secondary's record when it gave one
C5_FallbackExactlyOnce ==
    ( /\ pc \in {"returned", "failed"}
      /\ primary = "returned"
      /\ firecrawl_promos = <<>> ) =>
       /\ ai_calls = 1
       /\ IsDict(ai_overview_promo) => result = <<ai_overview_promo>>

\* the stored record under the (page_url, service_name) key of the record p
StoredFor(p) == lookup_existing(output_file, p.page_url, p.service_name)

\* the tag the classification rule gives the record p against the stored one
RuleTag(p, stored) ==
    IF ~DictTruthy(stored) THEN "NEW"
    ELSE IF /\ stored.service_name = p.service_name
            /\ stored.promo_description = p.promo_description
            /\ stored.offer_details = p.offer_details
         THEN "SAME"
         ELSE "UPDATED"

\* C9: a record whose key is absent from the store is tagged NEW; with the
\* key present it is tagged SAME when service_name, promo_description and
\* offer_details equal the stored values and UPDATED otherwise
C9_ClassificationRule ==
    pc = "returned" =>
       \A i \in 1..Len(result) :
          result[i].new_or_updated = RuleTag(result[i], StoredFor(result[i]))

\* the records of a list
Records(promos) == {promos[i] : i \in DOMAIN promos}

\* C13: a step of a run changes the store file only by replacing it with a
\* complete document, and a run that fails leaves the file as it was
C13_CrashSafeStore ==
    [][ /\ pc' \in {"failed", "write failed"} => output_file' = output_file
        /\ output_file' # output_file => output_file'.state = "ok" ]_vars

\* the records of the run in progress: those of the primary extractor and
\* those the flow returns
run_records ==
    Records(firecrawl_promos) \cup Records(result) \cup
    (IF IsDict(ai_overview_promo) THEN {ai_overview_promo} ELSE {})

\* C14: with a store file that cannot be read every record of the run is
\* tagged NEW, and the run fails only when the secondary extractor raised
C14_CorruptStoreIsEmpty ==
    (output_file.state = "unreadable" /\ pc \notin {"idle", "write failed"}) =>
       /\ \A promo \in run_records : promo.new_or_updated = "NEW"
       /\ pc = "failed" => ai_calls >= 1

\* a run over an unreadable store returned records
C14_Witness ==
    /\ output_file.state = "unreadable"
    /\ pc = "returned"
    /\ primary = "returned"
    /\ result # <<>>

\* the completeness predicate: a record whose service_name,
\* promo_description, offer_details, ad_title and ad_text are all non-empty
is_complete(promo) ==
    \A f \in {"service_name", "promo_description", "offer_details", "ad_title", "ad_text"} :
       Truthy(Get(promo, f, NONE))
has_complete_record(promos) == \E i \in DOMAIN promos : is_complete(promos[i])

\* C16: when the list the primary extractor returned has a complete record,
\* the flow returns that list as it is and the secondary extractor is not
\* called
C16_ValidPrimaryIsTerminal ==
    ( /\ primary = "returned"
      /\ has_complete_record(firecrawl_promos)
      /\ pc # "extracted" ) =>
       /\ pc \in {"returned", "write failed", "idle"}
       /\ result = firecrawl_promos
       /\ ai_calls = 0

\* the flow returned a primary list with a complete record
C16_Witness ==
    /\ pc = "returned"
    /\ primary = "returned"
    /\ has_complete_record(firecrawl_promos)
    /\ result # <<>>

\* C17: when the list the primary extractor returned has no complete record
\* and the secondary extractor gave None, the flow returns the primary list
C17_NullSecondaryReturnsPrimary ==
    ( /\ pc = "returned"
      /\ primary = "returned"
      /\ ~has_complete_record(firecrawl_promos)
      /\ ai_calls >= 1
      /\ ~IsDict(ai_overview_promo) ) =>
       result = firecrawl_promos

\* C18: in a run of Mr. Lube the primary extractor is never called, and the
\* flow returns what one call of the secondary extractor gave
C18_StaticBypass ==
    run_competitor = MrLube =>
       /\ primary = "not called"
       /\ pc \notin {"extracted", "fallback", "handler"}
       /\ pc = "returned" =>
             /\ ai_calls = 1
             /\ result = IF IsDict(ai_overview_promo) THEN <<ai_overview_promo>> ELSE <<>>

\* a run of Mr. Lube returned the record of the secondary extractor
C18_Witness ==
    /\ run_competitor = MrLube
    /\ pc = "returned"
    /\ ai_calls = 1
    /\ result # <<>>

\* the candidates of the fetched pages: the sections the loop does not skip
candidates == {section \in UNION {Records(run_pages[i].items) : i \in DOMAIN run_pages} :
                  ~fountain_skips(section.text)}

\* C19: whatever the text-cleaning service gave for the candidates of the
\* fetched pages, the primary extractor of Fountain Tire returns, with a
\* record built for every candidate
C19_CleanerNeverAborts ==
    ( /\ run_competitor = FountainTire
      /\ primary # "not called"
      /\ ~process_raises(run_pages) ) =>
       /\ primary = "returned"
       /\ \A section \in candidates :
             \E i \in DOMAIN firecrawl_promos :
                firecrawl_promos[i].ad_text = clean_text(Slice(section.text, 500))

\* C20: the write that ends a run leaves in the store file exactly the
\* records the run returned, in their order, and their count
C20_FullReplacement ==
    [][ (pc = "returned" /\ pc' = "idle") =>
           /\ output_file'.state = "ok"
           /\ output_file'.promotions = new_records
           /\ output_file'.count = Len(result) ]_vars

\* a run over a store that held another version of a record has ended and
\* the file holds the records of that run
C20_Witness ==
    /\ pc = "idle"
    /\ output_file.state = "ok"
    /\ output_file.promotions = new_records
    /\ \E i \in DOMAIN result : result[i].new_or_updated = "UPDATED"

(***************************************************************************)
(* Properties of the deduplication passes                                  *)
(***************************************************************************)
\* the discount value a record carries: the dollar amount of offer_details
discount_of(promo) == midas_discount(promo)

\* two records with the same title and different discount values
same_title_different_discount(promo1, promo2) ==
    /\ promo1.ad_title = promo2.ad_title
    /\ discount_of(promo1) # <<>> /\ discount_of(promo2) # <<>>
    /\ discount_of(promo1) # discount_of(promo2)

\* C2: two records of a run with identical titles and differing discount
\* values both survive the deduplication pass
C2_DifferentDiscountsSurvive ==
    dedup_passes # <<>> =>
       \A i, j \in DOMAIN dedup_input :
          same_title_different_discount(dedup_input[i], dedup_input[j]) =>
             {dedup_input[i], dedup_input[j]} \subseteq Records(dedup_passes[1])

same_three_fields(promo1, promo2) ==
    /\ promo1.service_name = promo2.service_name
    /\ promo1.promo_description = promo2.promo_description
    /\ promo1.offer_details = promo2.offer_details

\* C10: of two candidates of a run that yield the same service_name,
\* promo_description and offer_details the deduplication pass keeps exactly one
C10_ExactDuplicateKeptOnce ==
    dedup_passes # <<>> =>
       \A i, j \in DOMAIN dedup_input :
          (i < j /\ same_three_fields(dedup_input[i], dedup_input[j])) =>
             Cardinality({k \in DOMAIN dedup_passes[1] :
                             same_three_fields(dedup_passes[1][k], dedup_input[i])}) = 1

\* the brand identified in a record's text
brand_of(promo) == midas_extract_brand_name(midas_promo_text(promo))

\* two records with the same discount value and different identified brands
same_discount_different_brands(promo1, promo2) ==
    /\ discount_of(promo1) # <<>> /\ discount_of(promo1) = discount_of(promo2)
    /\ brand_of(promo1) # NONE /\ brand_of(promo2) # NONE
    /\ brand_of(promo1) # brand_of(promo2)

\* C11: two records with the same discount value and different identified
\* brands are never merged: both survive the deduplication pass
C11_DistinctBrandsSurvive ==
    dedup_passes # <<>> =>
       \A i, j \in DOMAIN dedup_input :
          same_discount_different_brands(dedup_input[i], dedup_input[j]) =>
             {dedup_input[i], dedup_input[j]} \subseteq Records(dedup_passes[1])

\* exactly one of two records has an identified brand
one_sided_brand(promo1, promo2) == (brand_of(promo1) # NONE) # (brand_of(promo2) # NONE)

\* the fuzzy similarity of the titles of two records
title_similarity(promo1, promo2) ==
    fuzz_ratio(Slice(midas_title(promo1), 200), Slice(midas_title(promo2), 200))

\* C12: when exactly one of two records has an identified brand and their
\* titles are less than 95% similar, the Midas pass keeps both records
C12_OneSidedBrandRule ==
    (dedup_scraper = "midas" /\ dedup_passes # <<>>) =>
       \A i, j \in DOMAIN dedup_input :
          ( /\ one_sided_brand(dedup_input[i], dedup_input[j])
            /\ title_similarity(dedup_input[i], dedup_input[j]) < 95 ) =>
             {dedup_input[i], dedup_input[j]} \subseteq Records(dedup_passes[1])

\* the duplicate test of the pass that keeps one representative of a pair
found_duplicate(promo, existing_promo) ==
    IF dedup_scraper = "kal" THEN kal_are_promos_duplicate(promo, existing_promo)
    ELSE fountain_are_promos_duplicate(promo, existing_promo)

\* C21: of a pair of duplicates the pass keeps the earlier record, unless the
\* later one has more non-empty fields, or as many and a longer offer_details,
\* and then it keeps the later one
C21_KeptRepresentative ==
    ( /\ dedup_passes # <<>>
      /\ dedup_scraper \in {"fountain", "kal"}
      /\ Len(dedup_input) = 2
      /\ dedup_input[1] # dedup_input[2]
      /\ found_duplicate(dedup_input[2], dedup_input[1]) ) =>
         dedup_passes[1] = << keep_better_promo(dedup_input[2], dedup_input[1]) >>

(***************************************************************************)
(* Properties of the fetch cascade                                         *)
(***************************************************************************)
\* the services the fetch is configured with, in the order the code turns
\* to them: Firecrawl (its API, then its SDK) and the direct GET of its
\* client, ZenRows, ScraperAPI; ZenRows first for a Midas rebates URL
zenrows_first ==
    fetch_scraper = "midas" /\ fetch_url = "rebates" /\ "ZENROWS_API_KEY" \in api_keys
priority_order ==
    (IF zenrows_first THEN <<"zenrows">> ELSE <<>>) \o
    (IF "FIRECRAWL_API_KEY" \in api_keys THEN <<"firecrawl", "httpx">> ELSE <<>>) \o
    (IF "ZENROWS_API_KEY" \in api_keys /\ ~zenrows_first THEN <<"zenrows">> ELSE <<>>) \o
    (IF "SCRAPERAPI_KEY" \in api_keys THEN <<"scraperapi">> ELSE <<>>)

\* what a service answers: Firecrawl answers through its SDK when its API
\* gave an HTTP error
answer_of(provider) ==
    IF provider = "firecrawl" /\ responds.firecrawl = "http_error"
    THEN responds.firecrawl_sdk
    ELSE responds[provider]
content_of(provider) ==
    IF provider = "firecrawl" /\ responds.firecrawl = "http_error"
    THEN html_of.firecrawl_sdk
    ELSE html_of[provider]

reports_error(provider) == answer_of(provider) \in {"http_error", "timeout"}
fails(provider) == answer_of(provider) \in {"http_error", "timeout", "empty"}

fetch_ended == fetch_pc \in {"returned", "raised"}
fetched_error == IF fetch_scraper = "fountain" THEN Get(fetched, "error", NONE) ELSE NONE
was_tried(provider) == \E i \in DOMAIN tried : tried[i] = provider

\* C6: when the first two providers in priority order report errors and the
\* third returns valid HTML, the fetch returns the third provider's content
\* and raises nothing
C6_CascadeFallback ==
    ( /\ fetch_ended
      /\ Len(priority_order) >= 3
      /\ reports_error(priority_order[1])
      /\ reports_error(priority_order[2])
      /\ answer_of(priority_order[3]) = "html" ) =>
       /\ fetch_pc = "returned"
       /\ fetched_html = content_of(priority_order[3])

\* C7: when every provider fails the fetch returns empty content with an
\* error description, and raises nothing
C7_TotalExhaustion ==
    ( /\ fetch_ended
      /\ \A i \in DOMAIN priority_order : fails(priority_order[i]) ) =>
       /\ fetch_pc = "returned"
       /\ fetched_html = <<>>
       /\ Truthy(fetched_error)

\* C8: a fetch that ends without content has tried every provider: no HTTP
\* error, timeout or empty body ends it while a later provider is untried
C8_FailureAdvances ==
    ( /\ fetch_ended
      /\ fetch_pc = "returned" => fetched_html = <<>> ) =>
       \A i \in DOMAIN priority_order : was_tried(priority_order[i])

\* C15: a fetch that found every provider failing while promo links are left
\* ends by returning, so that the loop skips the link and goes on to the
\* next one
C15_ExhaustionSkipsUrl ==
    ( /\ fetch_ended
      /\ links_left > 0
      /\ \A i \in DOMAIN priority_order : fails(priority_order[i]) ) =>
       fetch_pc = "returned"
(***************************************************************************)
(* Properties of the extraction of Google Ads                              *)
(***************************************************************************)
\* the promotional ads among those get_google_ads returned
promotional_ads ==
    IF IsList(serpapi_ads)
    THEN promo_ads_with_metadata(Get(ads_competitor, "name", <<>>), serpapi_ads.items)
    ELSE <<>>

\* how many times an ad occurs in a list
occurrences(ad, ads) == Cardinality({i \in DOMAIN ads : ads[i] = ad})

\* the promotional ads that the result holds fewer times than the answer
dropped_ads ==
    {promotional_ads[i] : i \in {j \in DOMAIN promotional_ads :
        occurrences(promotional_ads[j], final_ads)
            < occurrences(promotional_ads[j], promotional_ads)}}

\* C22: the ads kept for a competitor are at most ads_limit and they are the
\* promotional ads with the highest promotional-strength scores: no
\* promotional ad that is dropped scores higher than an ad that is kept
C22_TopKByScore ==
    ads_pc = "returned" =>
       /\ Len(final_ads) <= ads_limit
       /\ \A k \in DOMAIN final_ads : \A dropped \in dropped_ads :
             calculate_promo_score(dropped) <= calculate_promo_score(final_ads[k])

(***************************************************************************)
(* Properties of the extraction of a discount value                        *)
(***************************************************************************)
\* the kinds of discount token a text contains: a currency amount is "$"
\* and a digit, a percentage is a digit and "%"
has_amount(text) ==
    \E i \in 1..(Len(text) - 1) : text[i] = "$" /\ text[i + 1] \in Digits
has_percentage(text) ==
    \E i \in 1..(Len(text) - 1) : text[i] \in Digits /\ text[i + 1] = "%"
has_free(text) == Contains(Lower(text), <<"f","r","e","e">>)

is_amount(discount_value) == discount_value # NONE /\ StartsWith(discount_value, <<"$">>)
is_percentage(discount_value) ==
    discount_value # NONE /\ discount_value # <<>>
        /\ discount_value[Len(discount_value)] = "%"

\* C23: of a text with more than one kind of discount token every extractor
\* yields the currency amount when there is one, and else the percentage
\* rather than "free"
C23_DiscountPrecedence ==
    \A extractor \in DOMAIN discount_values :
       /\ (has_amount(discount_text)
              /\ (has_percentage(discount_text) \/ has_free(discount_text)))
             => is_amount(discount_values[extractor])
       /\ (~has_amount(discount_text) /\ has_percentage(discount_text)
              /\ has_free(discount_text))
             => is_percentage(discount_values[extractor])


(***************************************************************************)
(* Properties of the sweep over the scrapers                               *)
(***************************************************************************)
\* the earlier runs of the sweep that wrote the store of run i's competitor
own_runs(i) ==
    {j \in 1..(i - 1) : sweep_log[j].scraper = sweep_log[i].scraper /\ sweep_log[j].written}
\* the store as the competitor of run i last left it itself
own_store_before(i) ==
    IF own_runs(i) = {} THEN AbsentFile ELSE results[Greatest(own_runs(i))]
\* the runs of the sweep that wrote the store of a scraper
written_runs(scraper) ==
    {j \in DOMAIN sweep_log : sweep_log[j].scraper = scraper /\ sweep_log[j].written}
\* what the scraper of an entry returns when it runs on a store, whatever
\* else is in the directory
run_alone(entry, competitor, promotions_file, flow) ==
    IF flow.raised THEN error_result(competitor)
    ELSE document_of(entry.scraper, competitor, flow.promos)
result_alone(entry, competitor, promotions_file) ==
    run_alone(entry, competitor, promotions_file,
              promos_of(entry.scraper, competitor,
                        primary_of(entry.scraper, competitor, sites[entry.scraper],
                                   promotions_file),
                        sites[entry.scraper].overview_data))
entry_of(scraper) == CHOOSE entry \in SweepEntries : entry.scraper = scraper

\* C24: the competitors are independent: every run reads the store as its own
\* competitor's last writing run left it (absent when there was none), the
\* result of the run that just ended is the result of that competitor run
\* alone on that store, and every
\* store holds what its own competitor's last writing run wrote, whatever
\* other competitors ran in between
C24_CompetitorIndependence ==
    /\ Len(results) = Len(sweep_log)
    /\ \A i \in DOMAIN sweep_log : sweep_log[i].read = own_store_before(i)
    /\ \A i \in DOMAIN sweep_log \cap {Len(sweep_log)} :
          results[i] = result_alone(entry_of(sweep_log[i].scraper),
                                    load_competitor(entry_of(sweep_log[i].scraper).name),
                                    own_store_before(i))
    /\ \A entry \in SweepEntries :
          promotions_dir[store_of(entry)] =
             IF written_runs(entry.scraper) = {} THEN AbsentFile
             ELSE results[Greatest(written_runs(entry.scraper))]

\* a competitor ran, wrote records, another competitor ran and wrote, and the
\* first ran again
C24_Witness ==
    /\ Len(sweep_log) = 3
    /\ sweep_log[1].scraper = sweep_log[3].scraper
    /\ sweep_log[2].scraper # sweep_log[1].scraper
    /\ sweep_log[1].written /\ sweep_log[2].written /\ sweep_log[3].written
    /\ results[1].count > 0 /\ results[2].count > 0
    /\ sweep_log[3].read = results[1]

(***************************************************************************)
(* Properties of fetch_with_firecrawl inside one fetch                     *)
(***************************************************************************)
\* C25: whenever fetch_with_firecrawl has ended, on whatever path, what it
\* returned is a mapping with the entries html, images and error
C25_AlwaysMapping ==
    fetch_pc = "check" =>
        /\ IsDict(firecrawl_result)
        /\ DOMAIN firecrawl_result = {"html", "images", "error"}

\* the number of calls made to a provider in the fetch of the current URL
attempts(provider) == Cardinality({i \in DOMAIN tried : tried[i] = provider})

\* C29: within the fetch of one URL every provider is asked at most once, so
\* the fetch ends after at most as many attempts as there are providers
C29_AtMostOnce ==
    /\ \A provider \in Providers : attempts(provider) <= 1
    /\ Len(tried) <= Cardinality(Providers)

(***************************************************************************)
(* Properties of the end of unified_extraction_flow                        *)
(***************************************************************************)
\* C30: unified_extraction_flow never ends with an exception: it is never
\* left through an exception of the primary or of the secondary extractor
C30_NeverPropagates ==
    pc # "failed"

(***************************************************************************)
(* Properties of the entry points of the scraper table                     *)
(***************************************************************************)
\* C28: for every entry of the scraper table, a run whose primary extractor
\* returned a list that is empty or has no complete record has called the
\* secondary overview extractor before its store was written
C28_SecondaryBeforeWrite ==
    \A i \in DOMAIN sweep_log :
       ( /\ sweep_log[i].written
         /\ ~sweep_log[i].firecrawl.raised
         /\ ~has_valid_promotions(sweep_log[i].firecrawl.promos) ) =>
            sweep_log[i].ai_calls >= 1

(***************************************************************************)
(* Properties of the identity key of the stored records                    *)
(***************************************************************************)
\* the key under which load_existing_promos indexes a stored record
stored_key(promo) ==
    promo_key(Get(promo, "page_url", <<>>), Get(promo, "service_name", <<>>))
\* the records of the store whose key is the key of a record
stored_under(promotions_file, promo) ==
    {j \in DOMAIN promotions_file.promotions :
        stored_key(promotions_file.promotions[j]) = stored_key(promo)}

\* C26: the key round-trips: a record the primary extractor builds while the
\* store holds a record indexed under the same page_url::service_name was
\* found by its lookup, so it is not tagged NEW
C26_KeyRoundTrip ==
    ( /\ pc = "extracted"
      /\ output_file.state = "ok" ) =>
         \A i \in DOMAIN firecrawl_promos :
            stored_under(output_file, firecrawl_promos[i]) # {} =>
               firecrawl_promos[i].new_or_updated # "NEW"

\* C27: in the record list a run persists no two records have the same
\* (page_url, service_name) identity key
C27_KeyUnique ==
    output_file.state = "ok" =>
        \A i, j \in DOMAIN output_file.promotions :
           stored_key(output_file.promotions[i]) = stored_key(output_file.promotions[j])
              => i = j
=============================================================================
